---- MODULE Spec2Model ----
(***************************************************************************)
(* Model of the Notebook-PDF server (src/server/index.js): the in-memory   *)
(* result map, the data directory with its sidecar cache files and the    *)
(* download ledger, the Orchestrator (processPDF / processURL), the DELETE *)
(* handler and the remote sync (syncDriveFiles).  Every handler is cut at  *)
(* its await points: the code between two awaits is one atomic action.     *)
(***************************************************************************)
EXTENDS Integers, Sequences, FiniteSets, TLC

(***************************************************************************)
(* Bounds of the model                                                     *)
(***************************************************************************)
\* processPDF invocations in one run
MaxInvocations == 2
\* POST requests (process-url, save-to-drive) in one run
MaxUrlCalls == 2
\* DELETE requests and changes made to the data directory from outside
\* the program, in one run
MaxOutside == 1
\* sync passes in one run
MaxSyncs == 2
\* changes made to the remote folder from outside the program, in one run
MaxRemoteOps == 1
\* GET requests in one run
MaxRequests == 2
\* ticks of the sync timer in one run
MaxTicks == 1
\* calls that never return, in one run
MaxHangs == 1

(***************************************************************************)
(* Program constants                                                       *)
(***************************************************************************)
\* textPreview: text.substring(0, 200)
PreviewLen == 200

MissingKeyText == "API Key missing. Please add GEMINI_API_KEY to .env file."
AIErrorPrefix == "Error generating AI analysis: "
Ellipsis == "..."

(***************************************************************************)
(* Inputs                                                                  *)
(***************************************************************************)
RECURSIVE Repeat(_, _)
Repeat(s, k) == IF k = 0 THEN "" ELSE s \o Repeat(s, k - 1)

\* an extracted text shorter than the preview and one longer than it
ShortText == "short text"
LongText == Repeat("0123456789", 25)
Texts == {ShortText, LongText}

\* source documents of the data directory, URLs posted to /api/process-url
Docs == {"a.pdf"}
Urls == {"http://u"}
Keys == Docs \cup Urls

\* what the AI endpoint answers, and the messages of the errors it raises
AIResponses == {"summary"}
AIErrors == {"quota exceeded"}
\* the messages of the errors of the other collaborators
FetchError == "fetch failed"
UnlinkError == "EPERM: operation not permitted"
DriveError == "drive request failed"

(***************************************************************************)
(* Files and JSON                                                          *)
(***************************************************************************)
\* jsonPath = filePath + '.json'
Sidecar(n) == n \o ".json"

\* file contents: a PDF carrying a text, bytes that are neither a PDF nor
\* JSON, or a JSON text (held as the value JSON.parse gives for it)
PdfOf(t) == [kind |-> "pdf", text |-> t]
Junk == [kind |-> "junk"]

\* Date.prototype.toJSON: a Date is written as its ISO string
toISOString(d) == [iso |-> d.time]
\* JSON.stringify(resultData, null, 2): a Date timestamp becomes a string, a
\* timestamp that is a string already (a record loaded from a sidecar) stays
JSONstringify(v) ==
    [kind |-> "json",
     value |-> IF "timestamp" \in DOMAIN v /\ "time" \in DOMAIN v.timestamp
                 THEN [v EXCEPT !.timestamp = toISOString(v.timestamp)]
                 ELSE v]
\* JSON.parse succeeds on a JSON text and throws on anything else
Parses(c) == c.kind = "json"
JSONparse(c) == c.value

\* text.substring(0, k)
Min(a, b) == IF a < b THEN a ELSE b
\* (variant: no truncation)
substring_whole(s, k) == s
substring(s, k) == SubSeq(s, 1, Min(k, Len(s)))

\* pdf(dataBuffer): resolves with the text of a PDF, rejects otherwise
IsPdf(c) == c.kind = "pdf"

VARIABLES
    GEMINI_API_KEY,     \* TRUE iff process.env.GEMINI_API_KEY is set
    DRIVE_FOLDER_ID,    \* TRUE iff process.env.DRIVE_FOLDER_ID is set
    processedFiles,     \* the in-memory map: key -> Document Record
    dataDir,            \* DATA_DIR: file name -> content
    drive,              \* the remote folder: a set of entries
    nextDriveId,        \* the identifier the remote store gives next
    now,                \* the clock read by new Date()
    tasks,              \* invocations and requests suspended at an await
    nextId,             \* processPDF invocations started so far
    urlCalls,           \* POST requests received so far
    outside,            \* DELETE requests and outside changes so far
    syncs,              \* syncDriveFiles passes suspended at an await
    syncCount,          \* sync passes started so far
    remoteOps,          \* outside changes of the remote folder so far
    downloads,          \* per remote identifier: completed downloads
    syncOverlap,        \* TRUE once two sync passes have run at once
    production,         \* TRUE iff process.env.NODE_ENV === 'production'
    driveSyncInitialized, \* the flag of line 31
    timers,             \* intervals registered by setInterval
    inits,              \* initializeDriveSync executions suspended at an await
    reqs,               \* requests held by the middleware
    boot,               \* startup callbacks that have not run yet
    watch,              \* files with a watcher event not yet delivered
    initCount,          \* initializeDriveSync executions started so far
    reqCount,           \* GET requests received so far
    ticks,              \* the sync passes that timer ticks started
    hung,               \* suspended calls that will never return
    hist,               \* per document: what the Orchestrator did last
    last                \* the step taken last: what it did and was given

vars == <<GEMINI_API_KEY, DRIVE_FOLDER_ID, processedFiles, dataDir, drive,
          nextDriveId, now, tasks, nextId, urlCalls, outside, syncs, syncCount,
          remoteOps, downloads, syncOverlap, production,
          driveSyncInitialized, timers, inits, reqs, boot, watch, initCount,
          reqCount, ticks, hung, hist, last>>

env == <<GEMINI_API_KEY, DRIVE_FOLDER_ID>>
syncVars == <<syncs, syncCount, remoteOps, downloads, syncOverlap>>
initVars == <<production, driveSyncInitialized, timers, inits, reqs, boot,
              initCount, reqCount, ticks, hung>>
runVars == <<initVars, watch>>

Exists(f) == f \in DOMAIN dataDir

\* filePath.endsWith('.pdf')
endsWith(s, suffix) ==
    Len(s) >= Len(suffix) /\ SubSeq(s, Len(s) - Len(suffix) + 1, Len(s)) = suffix
\* lines 356-375: outside production the watcher is told of every file
\* added or changed in DATA_DIR; its handlers act on '.pdf' paths only
Notify(pending, file) ==
    IF ~production /\ endsWith(file, ".pdf") THEN pending \cup {file}
    ELSE pending

\* obj[k] = v on a JS object, delete obj[k], fs.writeFileSync, fs.unlinkSync
Put(obj, k, v) == [x \in DOMAIN obj \cup {k} |-> IF x = k THEN v ELSE obj[x]]
Remove(obj, k) == [x \in DOMAIN obj \ {k} |-> obj[x]]

\* path.join(DATA_DIR, file), path.basename(filePath), filePath + '.json'
DATA_DIR == "data"
pathJoin(dir, file) == <<dir, file>>
basename(p) == p[Len(p)]
jsonPathOf(filePath) == <<filePath[1], Sidecar(filePath[2])>>

NoEvent == [op |-> "none"]

\* the data directory when the process starts: every source document is
\* there, a PDF or not, with no sidecar or with one that does not parse
SourceContents == {Junk} \cup {PdfOf(t) : t \in Texts}
Absent == [kind |-> "absent"]
Present(d) == [f \in {x \in DOMAIN d : d[x] # Absent} |-> d[f]]
StartDirs ==
    {Present(d) :
       d \in {e \in [Docs \cup {Sidecar(n) : n \in Docs} ->
                       SourceContents \cup {Absent}] :
                \A n \in Docs : /\ e[n] \in SourceContents
                                /\ e[Sidecar(n)] \in {Junk, Absent}}}

Init ==
    /\ GEMINI_API_KEY \in BOOLEAN
    /\ DRIVE_FOLDER_ID \in BOOLEAN
    /\ processedFiles = <<>>
    /\ dataDir \in StartDirs
    /\ drive = {}
    /\ nextDriveId = 1
    /\ now = 1
    /\ tasks = {}
    /\ nextId = 1
    /\ urlCalls = 0
    /\ outside = 0
    /\ syncs = {}
    /\ syncCount = 0
    /\ remoteOps = 0
    /\ downloads = <<>>
    /\ syncOverlap = FALSE
    /\ production = TRUE     \* the deployed configuration: no watcher
    /\ driveSyncInitialized = FALSE
    /\ timers = 0
    /\ inits = {}
    /\ reqs = {}
    /\ boot = {}
    /\ watch = {}
    /\ initCount = 0
    /\ reqCount = 0
    /\ ticks = {}
    /\ hung = {}
    /\ hist = [n \in Docs |-> "none"]
    /\ last = NoEvent

(***************************************************************************)
(* processPDF (the Orchestrator for a file)                                *)
(***************************************************************************)
\* a suspended processPDF invocation
\* (prev: the document's trace when it started; cache: what the cache check
\* found; dirty: the document was changed from outside since it started)
PdfTask(id, filePath, pc, buf, text, prev, cache, aiCalls) ==
    [id |-> id, op |-> "processPDF", key |-> basename(filePath), pc |-> pc,
     buf |-> buf, text |-> text, prev |-> prev, cache |-> cache,
     dirty |-> FALSE, aiCalls |-> aiCalls, issued |-> <<>>,
     wrote |-> Absent, deleted |-> FALSE]

\* a write of a key's record or files by another operation: a DELETE of
\* that key suspended at an await has been overlapped
Overlapped(ts, key) ==
    {IF t.op = "delete" /\ t.key = key THEN [t EXCEPT !.dirty = TRUE] ELSE t
       : t \in ts}

\* what a processPDF step did: step is the await it resumed from (or
\* "start"); pdfCalls, analyses and aiCalls count the invocation's calls of
\* pdf(), runs of the analysis stage and calls of model.generateContent
PdfEvent(t, step, returned, outcome, pdfCalls, analyses, aiCalls, text, answer) ==
    [op |-> "processPDF", id |-> t.id, key |-> t.key, prev |-> t.prev,
     cache |-> t.cache, srcIsPdf |-> IsPdf(t.buf),
     step |-> step, returned |-> returned, outcome |-> outcome,
     pdfCalls |-> pdfCalls, analyses |-> analyses, aiCalls |-> aiCalls,
     text |-> text, answer |-> answer,
     dirty |-> t.dirty, wrote |-> t.wrote, deleted |-> t.deleted,
     sidecarAfter |-> Sidecar(t.key) \in DOMAIN dataDir']

\* the Orchestrator's trace of a document when an invocation returns: a
\* change made from outside while it ran (dirty) leaves the trace as the
\* change set it
HistAfter(t, outcome) ==
    IF t.dirty THEN hist
    ELSE [hist EXCEPT ![t.key] =
            IF outcome = "hit" /\ hist[t.key] = "ok" THEN "ok" ELSE outcome]

\* lines 210-218: what the cache check finds at jsonPath
\* (variant: the cache check never finds a sidecar)
cacheState_never(jsonPath) ==
    IF ~Exists(jsonPath) THEN "absent" ELSE "corrupt"
cacheState(jsonPath) ==
    IF ~Exists(jsonPath) THEN "absent"
    ELSE IF Parses(dataDir[jsonPath]) THEN "hit" ELSE "corrupt"

\* lines 205-225: the cache check, then readFileSync and the call of pdf()
processPDF(file) ==
    LET filePath == pathJoin(DATA_DIR, file)
        fileName == basename(filePath)
        jsonPath == basename(jsonPathOf(filePath))
        removed == hist[fileName] = "removed" /\ ~Exists(jsonPath)
        prev == IF hist[fileName] = "removed"
                  THEN (IF removed THEN "removed" ELSE "none")
                  ELSE hist[fileName]
        cache == cacheState(jsonPath)
        t0 == PdfTask(nextId, filePath, "pdf", dataDir[file], "", prev, cache, 0)
    IN
    /\ Exists(file)
    /\ nextId' = nextId + 1
    /\ IF cache = "hit"
         THEN \* cache hit: load and return
              /\ processedFiles' =
                     Put(processedFiles, fileName, JSONparse(dataDir[jsonPath]))
              /\ tasks' = Overlapped(tasks, fileName)
              /\ hist' = HistAfter(t0, "hit")
              /\ UNCHANGED dataDir
              /\ last' = PdfEvent(t0, "start", TRUE, "hit", 0, 0, 0, "", "")
         ELSE \* absent or corrupt sidecar: read the source, call pdf()
              /\ tasks' = tasks \cup {t0}
              /\ hist' = IF hist[fileName] = "removed"
                           THEN [hist EXCEPT ![fileName] = "none"]
                           ELSE hist
              /\ UNCHANGED <<processedFiles, dataDir>>
              /\ last' = PdfEvent(t0, "start", FALSE, "pending", 1, 0, 0, "",
                                  "")
    /\ UNCHANGED <<env, syncVars, urlCalls, drive, nextDriveId, now, outside>>

\* a call of processPDF by a caller that is not modelled further,
\* MaxInvocations of them in a run
callProcessPDF(file) ==
    /\ nextId <= MaxInvocations
    /\ processPDF(file)
    /\ UNCHANGED runVars

\* line 267: fs.writeFileSync(jsonPath, JSON.stringify(resultData, null, 2))
\* (variants: no write; no write over an existing sidecar)
writeCache_skip(fileName, resultData) == dataDir
writeCache_noOverwrite(fileName, resultData) ==
    IF Exists(Sidecar(fileName)) THEN dataDir
    ELSE Put(dataDir, Sidecar(fileName), JSONstringify(resultData))
writeCache(fileName, resultData) ==
    Put(dataDir, Sidecar(fileName), JSONstringify(resultData))

\* line 230: if (process.env.GEMINI_API_KEY)
\* (variant: the key is taken as configured)
KeyConfigured_always == TRUE
KeyConfigured == GEMINI_API_KEY

\* lines 257-280: assemble the record, store it, write the sidecar, and
\* start the upload of the sidecar when a remote folder is configured
StoreResult(t, step, text, analysis, aiCalls, answer) ==
    LET fileName == t.key
        resultData == [name |-> fileName,
                       timestamp |-> [time |-> now],
                       textPreview |-> substring(text, PreviewLen) \o Ellipsis,
                       analysis |-> analysis]
        tw == [t EXCEPT !.wrote = resultData]
    IN
    /\ processedFiles' = Put(processedFiles, fileName, resultData)
    /\ dataDir' = writeCache(fileName, resultData)
    /\ now' = now + 1
    /\ IF DRIVE_FOLDER_ID
         THEN /\ tasks' = Overlapped((tasks \ {t}) \cup
                    {[tw EXCEPT !.pc = "upload", !.text = text,
                               !.aiCalls = aiCalls]}, fileName)
              /\ hist' = hist
              /\ last' = PdfEvent(tw, step, FALSE, "stored", 1, 1, aiCalls,
                                  text, answer)
         ELSE /\ tasks' = Overlapped(tasks \ {t}, fileName)
              /\ hist' = HistAfter(t, "ok")
              /\ last' = PdfEvent(tw, step, TRUE, "stored", 1, 1, aiCalls,
                                  text, answer)

\* lines 225-255: pdf() settles; without a key the analysis is the placeholder
pdfReturns(t) ==
    /\ t \in tasks /\ t.op = "processPDF" /\ t.pc = "pdf"
    /\ IF ~IsPdf(t.buf)
         THEN \* pdf() rejects: caught at line 282, the invocation returns
              /\ tasks' = tasks \ {t}
              /\ hist' = HistAfter(t, "failed")
              /\ UNCHANGED <<processedFiles, dataDir, now>>
              /\ last' = PdfEvent(t, "pdf", TRUE, "failed", 1, 0, 0, "", "")
         ELSE IF KeyConfigured
                THEN \* model.generateContent(prompt) is called
                     /\ tasks' = (tasks \ {t}) \cup
                            {[t EXCEPT !.pc = "ai", !.text = t.buf.text,
                                       !.aiCalls = 1]}
                     /\ UNCHANGED <<processedFiles, dataDir, now, hist>>
                     /\ last' = PdfEvent(t, "pdf", FALSE, "pending", 1, 1, 1,
                                         t.buf.text, "")
                ELSE StoreResult(t, "pdf", t.buf.text, MissingKeyText, 0, "")
    /\ UNCHANGED <<env, runVars, syncVars, urlCalls, drive, nextDriveId, nextId, outside>>

\* lines 246-252: the AI call answers or throws; both give an analysis
\* (variant: the initial value of analysis is kept)
AnalysisOf_pending(ok, answer) ==
    IF ok THEN answer ELSE "Analysis pending or failed."
AnalysisOf(ok, answer) == IF ok THEN answer ELSE AIErrorPrefix \o answer

aiReturns(t, ok, answer) ==
    /\ t \in tasks /\ t.op = "processPDF" /\ t.pc = "ai"
    /\ answer \in (IF ok THEN AIResponses ELSE AIErrors)
    /\ StoreResult(t, IF ok THEN "ai-ok" ELSE "ai-error", t.text,
                   AnalysisOf(ok, answer), 1, answer)
    /\ UNCHANGED <<env, runVars, syncVars, urlCalls, drive, nextDriveId, nextId, outside>>

\* uploadFileToDrive (lines 644-676): drive.files.create makes a new remote
\* entry from the bytes of the local file; never replaces an older one
IdOf(k) == "id" \o ToString(k)
DriveEntry(id, name, mimeType, content) ==
    [id |-> id, name |-> name, mimeType |-> mimeType, content |-> content,
     modifiedTime |-> 1]

\* lines 275-277: catch (uploadErr) logs the error and does nothing else
\* (variant: the catch removes the sidecar that could not be uploaded)
uploadCatch_undo(dir, jsonPath) ==
    IF jsonPath \in DOMAIN dir THEN Remove(dir, jsonPath) ELSE dir
uploadCatch(dir, jsonPath) == dir

\* lines 273-280: the upload settles; a failure is logged and swallowed
uploadReturns(t, ok) ==
    LET jsonPath == Sidecar(t.key) IN
    /\ t \in tasks /\ t.op = "processPDF" /\ t.pc = "upload"
    /\ ok => Exists(jsonPath)
    /\ IF ok
         THEN /\ drive' = drive \cup {DriveEntry(IdOf(nextDriveId), jsonPath,
                                   "application/json", dataDir[jsonPath])}
              /\ nextDriveId' = nextDriveId + 1
         ELSE UNCHANGED <<drive, nextDriveId>>
    /\ tasks' = tasks \ {t}
    /\ hist' = HistAfter(t, "ok")
    /\ dataDir' = IF ok THEN dataDir ELSE uploadCatch(dataDir, jsonPath)
    /\ UNCHANGED <<processedFiles, now>>
    /\ last' = PdfEvent(t, IF ok THEN "upload-ok" ELSE "upload-error", TRUE,
                        "finished", 1, 1, t.aiCalls, t.text, "")
    /\ UNCHANGED <<env, runVars, syncVars, urlCalls, nextId, outside>>

(***************************************************************************)
(* Changes of the data directory made from outside the program            *)
(***************************************************************************)
\* an outside change of a document's files: suspended invocations for it
\* no longer run on the unchanged file
Touched(ts, n) ==
    {IF t.key = n THEN [t EXCEPT !.dirty = TRUE] ELSE t : t \in ts}

\* a DELETE of the document has removed its entry, its source and its
\* sidecar while the invocation was in flight
Deleted(ts, n) ==
    {IF t.op = "processPDF" /\ t.key = n THEN [t EXCEPT !.deleted = TRUE]
     ELSE t : t \in Touched(ts, n)}

FsEvent(kind, file) == [op |-> "fs", kind |-> kind, key |-> file]

\* a source file is put into the data directory (added or replaced)
fileDropped(n, c) ==
    /\ outside < MaxOutside
    /\ n \in Docs
    /\ c \in SourceContents
    /\ outside' = outside + 1
    /\ dataDir' = Put(dataDir, n, c)
    /\ hist' = [hist EXCEPT ![n] = "none"]
    /\ tasks' = Touched(tasks, n)
    /\ watch' = Notify(watch, n)
    /\ last' = FsEvent("dropped", n)
    /\ UNCHANGED <<env, initVars, syncVars, urlCalls, processedFiles, drive, nextDriveId, now,
                   nextId>>

\* a sidecar file is deleted from the data directory
sidecarRemoved(n) ==
    /\ outside < MaxOutside
    /\ n \in Docs
    /\ Exists(Sidecar(n))
    /\ outside' = outside + 1
    /\ dataDir' = Remove(dataDir, Sidecar(n))
    /\ hist' = [hist EXCEPT ![n] = IF hist[n] = "ok" THEN "removed" ELSE "none"]
    /\ tasks' = Touched(tasks, n)
    /\ last' = FsEvent("sidecar-removed", n)
    /\ UNCHANGED <<env, runVars, syncVars, urlCalls, processedFiles, drive, nextDriveId, now,
                   nextId>>

\* a sidecar file is damaged (truncated, overwritten with garbage)
sidecarCorrupted(n) ==
    /\ outside < MaxOutside
    /\ n \in Docs
    /\ Exists(Sidecar(n))
    /\ outside' = outside + 1
    /\ dataDir' = Put(dataDir, Sidecar(n), Junk)
    /\ hist' = [hist EXCEPT ![n] = "none"]
    /\ tasks' = Touched(tasks, n)
    /\ last' = FsEvent("sidecar-corrupted", n)
    /\ UNCHANGED <<env, runVars, syncVars, urlCalls, processedFiles, drive, nextDriveId, now,
                   nextId>>

(***************************************************************************)
(* DELETE /api/results/:filename                                           *)
(***************************************************************************)
DeleteTask(id, filename, pc, issued) ==
    [id |-> id, op |-> "delete", key |-> filename, pc |-> pc, buf |-> Junk,
     text |-> "", prev |-> "", cache |-> "", dirty |-> FALSE, aiCalls |-> 0,
     issued |-> issued]

\* lines 83 and 86: the body sent with the status; error is the message of
\* the exception caught
\* (variant: the catch also answers with success true)
DeleteResponse_success(status, filename, error) ==
    [success |-> TRUE, message |-> filename \o " deleted"]
DeleteResponse(status, filename, error) ==
    IF status = 200
    THEN [success |-> TRUE, message |-> filename \o " deleted"]
    ELSE [success |-> FALSE, message |-> "Error deleting file: " \o error]

\* what a step of the DELETE handler did: status is the answer sent (0 while
\* none is), issued the names given so far to deleteFileFromDrive
DeleteEvent(filename, step, status, issued, overlapped) ==
    [op |-> "delete", key |-> filename, step |-> step, status |-> status,
     issued |-> issued, overlapped |-> overlapped,
     response |-> DeleteResponse(status, filename,
                                 IF step = "unlink-error" THEN UnlinkError
                                 ELSE IF step = "drive-error" THEN DriveError
                                 ELSE ""),
     inMap |-> filename \in DOMAIN processedFiles',
     srcExists |-> filename \in DOMAIN dataDir',
     sidecarExists |-> Sidecar(filename) \in DOMAIN dataDir']

\* lines 69-73: unlink the source, then the sidecar, each if it exists;
\* fsError names the unlink that throws
\* (variant: only the source is unlinked)
unlinkLocal_sourceOnly(pdfPath, jsonPath, fsError) ==
    IF fsError = "pdf" \/ ~Exists(pdfPath) THEN dataDir
    ELSE Remove(dataDir, pdfPath)
unlinkLocal(pdfPath, jsonPath, fsError) ==
    LET afterPdf == IF Exists(pdfPath) THEN Remove(dataDir, pdfPath)
                    ELSE dataDir
    IN IF fsError = "pdf" THEN dataDir
       ELSE IF jsonPath \in DOMAIN afterPdf /\ fsError # "json"
              THEN Remove(afterPdf, jsonPath)
              ELSE afterPdf

\* lines 59-80: remove from memory, unlink the source and the sidecar, then
\* call deleteFileFromDrive for the source
deleteHandler(filename, fsError) ==
    LET pdfPath == filename
        jsonPath == Sidecar(filename)
        thrown == \/ fsError = "pdf" /\ Exists(pdfPath)
                  \/ fsError = "json" /\ Exists(jsonPath)
    IN
    /\ outside < MaxOutside
    /\ filename \in Keys
    /\ fsError \in {"none", "pdf", "json"}
    /\ fsError # "none" => thrown
    /\ outside' = outside + 1
    /\ processedFiles' = IF filename \in DOMAIN processedFiles
                           THEN Remove(processedFiles, filename)
                           ELSE processedFiles
    /\ dataDir' = unlinkLocal(pdfPath, jsonPath, fsError)
    /\ hist' = [n \in DOMAIN hist |->
                   IF n = filename THEN "none" ELSE hist[n]]
    /\ IF thrown
         THEN /\ tasks' = Touched(tasks, filename)
              /\ last' = DeleteEvent(filename, "unlink-error", 500, <<>>,
                                             FALSE)
         ELSE IF DRIVE_FOLDER_ID
                THEN /\ tasks' = Deleted(tasks, filename) \cup
                           {DeleteTask(100 + outside, filename, "source",
                                       <<filename>>)}
                     /\ last' = DeleteEvent(filename, "start", 0, <<filename>>,
                                            FALSE)
                ELSE /\ tasks' = Deleted(tasks, filename)
                     /\ last' = DeleteEvent(filename, "start", 200, <<>>, FALSE)
    /\ UNCHANGED <<env, syncVars, urlCalls, drive, nextDriveId, now, nextId>>
\* a DELETE /api/results/:filename that the middleware lets through at once
deleteResults(filename, fsError) ==
    deleteHandler(filename, fsError) /\ UNCHANGED runVars

\* deleteFileFromDrive (lines 678-710): every remote entry of that name is
\* deleted, or the call throws and nothing is
deleteFileFromDrive(entries, fileName) == {e \in entries : e.name # fileName}

\* lines 78-87: a remote delete settles; the second one is for the sidecar
deleteReturns(t, ok) ==
    /\ t \in tasks /\ t.op = "delete"
    /\ UNCHANGED <<env, runVars, syncVars, urlCalls, processedFiles, dataDir, nextDriveId, now, nextId,
                   outside, hist>>
    /\ IF ~ok
         THEN /\ tasks' = tasks \ {t}
              /\ drive' = drive
              /\ last' = DeleteEvent(t.key, "drive-error", 500, t.issued,
                                     t.dirty)
         ELSE /\ drive' = deleteFileFromDrive(drive, t.issued[Len(t.issued)])
              /\ IF t.pc = "source"
                   THEN /\ tasks' = (tasks \ {t}) \cup
                              {[t EXCEPT !.pc = "sidecar",
                                  !.issued = Append(t.issued, Sidecar(t.key))]}
                        /\ last' = DeleteEvent(t.key, "source-deleted", 0,
                                       Append(t.issued, Sidecar(t.key)), t.dirty)
                   ELSE /\ tasks' = tasks \ {t}
                        /\ last' = DeleteEvent(t.key, "sidecar-deleted", 200,
                                               t.issued, t.dirty)

(***************************************************************************)
(* POST /api/process-url and processURL                                    *)
(***************************************************************************)
UrlTask(id, url, pc, text, aiCalls) ==
    [id |-> id, op |-> "processURL", key |-> url, pc |-> pc, buf |-> Junk,
     text |-> text, prev |-> "", cache |-> "", dirty |-> FALSE,
     aiCalls |-> aiCalls, issued |-> <<>>]

\* lines 159, 164 and 167: the body sent with the status; error is the
\* message of the exception processURL threw
\* (variant: the 500 answer does not carry the error's message)
UrlResponse_noMessage(status, error) ==
    IF status = 400 THEN [success |-> FALSE, message |-> "URL is required"]
    ELSE IF status = 200
    THEN [success |-> TRUE, message |-> "URL processed successfully"]
    ELSE [success |-> FALSE, message |-> "Error processing URL"]
UrlResponse(status, error) ==
    IF status = 400 THEN [success |-> FALSE, message |-> "URL is required"]
    ELSE IF status = 200
    THEN [success |-> TRUE, message |-> "URL processed successfully"]
    ELSE [success |-> FALSE, message |-> "Error processing URL: " \o error]

\* what a step of the URL path did: status is the answer sent (0 while none
\* is), known whether the map held the URL when the request came,
\* fetchCalls and aiCalls the calls of axios.get and model.generateContent
UrlEvent(id, url, step, status, known, fetchCalls, aiCalls, text, answer) ==
    [op |-> "processURL", id |-> id, key |-> url, step |-> step,
     status |-> status, known |-> known, fetchCalls |-> fetchCalls,
     aiCalls |-> aiCalls, text |-> text, answer |-> answer,
     response |-> UrlResponse(status, IF step = "fetch-error" THEN answer
                                      ELSE ""),
     mapSame |-> processedFiles' = processedFiles,
     filesSame |-> dataDir' = dataDir]

\* lines 288-297: processURL is entered and calls axios.get
processURL(id, url) ==
    /\ tasks' = tasks \cup {UrlTask(id, url, "fetch", "", 0)}
    /\ last' = UrlEvent(id, url, "start", 0, url \in DOMAIN processedFiles, 1,
                        0, "", "")

\* lines 156-163: 400 without a url, else processURL is called
\* (variant: a URL already in the map is not fetched again)
postProcessUrl_cached(url) ==
    /\ urlCalls < MaxUrlCalls
    /\ url \in Urls \cup {""}
    /\ urlCalls' = urlCalls + 1
    /\ UNCHANGED <<env, runVars, syncVars, nextId, processedFiles, dataDir, drive, nextDriveId,
                   now, outside, hist>>
    /\ IF url = ""
         THEN /\ tasks' = tasks
              /\ last' = UrlEvent(200 + urlCalls, url, "start", 400, FALSE, 0, 0,
                                  "", "")
         ELSE IF url \in DOMAIN processedFiles
                THEN /\ tasks' = tasks
                     /\ last' = UrlEvent(200 + urlCalls, url, "start", 200, TRUE,
                                         0, 0, "", "")
                ELSE processURL(200 + urlCalls, url)
processUrlHandler(url) ==
    /\ urlCalls < MaxUrlCalls
    /\ url \in Urls \cup {""}
    /\ urlCalls' = urlCalls + 1
    /\ UNCHANGED <<env, syncVars, nextId, processedFiles, dataDir, drive,
                   nextDriveId, now, outside, hist>>
    /\ IF url = ""
         THEN /\ tasks' = tasks
              /\ last' = UrlEvent(200 + urlCalls, url, "start", 400, FALSE, 0, 0,
                                  "", "")
         ELSE processURL(200 + urlCalls, url)
\* a POST /api/process-url that the middleware lets through at once
postProcessUrl(url) == processUrlHandler(url) /\ UNCHANGED runVars

\* lines 340-347: the record of a URL, stored in memory only
StoreUrlResult(t, step, text, analysis, aiCalls, answer) ==
    LET fileName == t.key
        resultData == [name |-> fileName,
                       timestamp |-> [time |-> now],
                       textPreview |-> substring(text, PreviewLen) \o Ellipsis,
                       analysis |-> analysis,
                       type |-> "url"]
    IN
    /\ processedFiles' = Put(processedFiles, fileName, resultData)
    /\ now' = now + 1
    /\ tasks' = Overlapped(tasks \ {t}, fileName)
    /\ UNCHANGED dataDir
    /\ last' = UrlEvent(t.id, fileName, step, 200, FALSE, 1, aiCalls, text,
                        answer)

\* lines 349-352: catch (err) logs the error and rethrows it; the map is as
\* it was
\* (variant: the catch drops the record of the URL)
processURLCatch_drop(map, fileName) ==
    IF fileName \in DOMAIN map THEN Remove(map, fileName) ELSE map
processURLCatch(map, fileName) == map

\* lines 293-338 and 165-168: axios.get settles; a failure of the request or
\* of the extraction that follows it is rethrown and answered 500; without
\* a key the analysis is the placeholder
fetchReturns(t, ok, text) ==
    /\ t \in tasks /\ t.op = "processURL" /\ t.pc = "fetch"
    /\ text \in (IF ok THEN Texts ELSE {FetchError})
    /\ IF ~ok
         THEN /\ tasks' = tasks \ {t}
              /\ processedFiles' = processURLCatch(processedFiles, t.key)
              /\ UNCHANGED <<dataDir, now>>
              /\ last' = UrlEvent(t.id, t.key, "fetch-error", 500, FALSE, 1, 0,
                                  "", text)
         ELSE IF KeyConfigured
                THEN /\ tasks' = (tasks \ {t}) \cup
                            {UrlTask(t.id, t.key, "ai", text, 1)}
                     /\ UNCHANGED <<processedFiles, dataDir, now>>
                     /\ last' = UrlEvent(t.id, t.key, "fetch", 0, FALSE, 1, 1,
                                         text, "")
                ELSE StoreUrlResult(t, "fetch", text, MissingKeyText, 0, "")
    /\ UNCHANGED <<env, runVars, syncVars, urlCalls, drive, nextDriveId, nextId, outside, hist>>

\* lines 329-347: the AI call answers or throws; both give an analysis
urlAiReturns(t, ok, answer) ==
    /\ t \in tasks /\ t.op = "processURL" /\ t.pc = "ai"
    /\ answer \in (IF ok THEN AIResponses ELSE AIErrors)
    /\ StoreUrlResult(t, IF ok THEN "ai-ok" ELSE "ai-error", t.text,
                      AnalysisOf(ok, answer), 1, answer)
    /\ UNCHANGED <<env, runVars, syncVars, urlCalls, drive, nextDriveId, nextId, outside, hist>>

(***************************************************************************)
(* POST /api/save-to-drive and uploadSummaryToDrive                        *)
(***************************************************************************)
\* path.basename(originalFileName, path.extname(originalFileName))
CharAt(s, i) == SubSeq(s, i, i)
LastIndexOf(s, c) ==
    LET I == {i \in 1..Len(s) : CharAt(s, i) = c}
    IN  IF I = {} THEN 0 ELSE CHOOSE i \in I : \A j \in I : j <= i
BaseOf(s) == SubSeq(s, LastIndexOf(s, "/") + 1, Len(s))
extname(s) ==
    LET b == BaseOf(s)
        d == LastIndexOf(b, ".")
    IN  IF d <= 1 THEN "" ELSE SubSeq(b, d, Len(b))
basenameExt(s, ext) ==
    LET b == BaseOf(s)
    IN  IF ext # "" /\ Len(b) > Len(ext)
           /\ SubSeq(b, Len(b) - Len(ext) + 1, Len(b)) = ext
        THEN SubSeq(b, 1, Len(b) - Len(ext)) ELSE b
summaryFileName(originalFileName) ==
    basenameExt(originalFileName, extname(originalFileName))
        \o "_notebook_summary.txt"
TEXT_MIME == "text/plain"

SaveTask(id, filename, analysisText) ==
    [id |-> id, op |-> "save", key |-> filename, pc |-> "create",
     buf |-> Junk, text |-> analysisText, prev |-> "", cache |-> "",
     dirty |-> FALSE, aiCalls |-> 0, issued |-> <<>>]

\* the answers of the handler: status and body
SaveAnswer(status, message) ==
    [status |-> status, success |-> FALSE, message |-> message]
SaveDone(driveFile) ==
    [status |-> 200, success |-> TRUE,
     message |-> "Summary saved to Google Drive successfully",
     driveFile |-> driveFile]
NoAnswer == [status |-> 0]

\* what a step of the handler did: known tells whether the map held the
\* filename when the request came, created the entries the step added to
\* the remote folder
SaveEvent(id, filename, step, known, answer) ==
    [op |-> "save", id |-> id, key |-> filename, step |-> step,
     known |-> known, folder |-> DRIVE_FOLDER_ID, status |-> answer.status,
     answer |-> answer, created |-> drive' \ drive,
     mapSame |-> processedFiles' = processedFiles]

\* processedFiles[filename] on the object literal of line 30: an own
\* property, else a property inherited from Object.prototype (a function,
\* which is truthy and has no analysis), else undefined
ObjectPrototypeKeys == {"constructor"}
undefined == [kind |-> "undefined"]
Inherited == [kind |-> "function"]
Lookup(obj, k) ==
    IF k \in DOMAIN obj THEN obj[k]
    ELSE IF k \in ObjectPrototypeKeys THEN Inherited
    ELSE undefined
Truthy(v) == v # undefined
\* fileData.analysis; the body of the upload is empty when it is undefined
AnalysisText(fileData) ==
    IF "analysis" \in DOMAIN fileData THEN fileData.analysis ELSE ""

\* lines 172-189: the checks of the handler in their order, then the call of
\* uploadSummaryToDrive with the analysis of the record
SaveChecks(filename) ==
    IF filename = "" THEN SaveAnswer(400, "Filename is required")
    ELSE IF ~Truthy(Lookup(processedFiles, filename))
    THEN SaveAnswer(404, "File not found in processed files")
    ELSE IF ~DRIVE_FOLDER_ID
    THEN SaveAnswer(500, "Drive folder ID not configured")
    ELSE NoAnswer

\* req.body.filename: missing, a key the map can hold, or another string
SaveNames == Keys \cup {""} \cup ObjectPrototypeKeys
saveToDriveHandler(filename) ==
    LET id == 300 + urlCalls
        answer == SaveChecks(filename)
    IN
    /\ urlCalls < MaxUrlCalls
    /\ filename \in SaveNames
    /\ urlCalls' = urlCalls + 1
    /\ UNCHANGED <<env, syncVars, nextId, processedFiles, dataDir, drive,
                   nextDriveId, now, outside, hist>>
    /\ tasks' = IF answer = NoAnswer
                THEN tasks \cup
                       {SaveTask(id, filename,
                           AnalysisText(Lookup(processedFiles, filename)))}
                ELSE tasks
    /\ last' = SaveEvent(id, filename, "start",
                         filename \in DOMAIN processedFiles, answer)
\* a POST /api/save-to-drive that the middleware lets through at once
postSaveToDrive(filename) == saveToDriveHandler(filename) /\ UNCHANGED runVars

\* lines 189-201 and 604-642: drive.files.create settles; the created entry
\* is answered with 200, an exception with 500
saveReturns(t, ok) ==
    /\ t \in tasks /\ t.op = "save"
    /\ tasks' = tasks \ {t}
    /\ UNCHANGED <<env, runVars, syncVars, nextId, processedFiles, dataDir, now,
                   urlCalls, outside, hist>>
    /\ IF ok
       THEN LET e == DriveEntry(IdOf(nextDriveId), summaryFileName(t.key),
                                TEXT_MIME, [kind |-> "text", text |-> t.text])
            IN  /\ drive' = drive \cup {e}
                /\ nextDriveId' = nextDriveId + 1
                /\ last' = SaveEvent(t.id, t.key, "created", TRUE,
                              SaveDone([id |-> e.id, name |-> e.name]))
       ELSE /\ UNCHANGED <<drive, nextDriveId>>
            /\ last' = SaveEvent(t.id, t.key, "create-error", TRUE,
                          SaveAnswer(500, "Error saving to Drive: "
                                              \o DriveError))

(***************************************************************************)
(* Remote sync: syncDriveFiles, the download ledger                        *)
(***************************************************************************)
PDF_MIME == "application/pdf"
JSON_MIME == "application/json"
\* getDownloadRecordPath: the ledger lives in the data directory
getDownloadRecordPath == "downloaded_files.json"

\* fs.createWriteStream(destPath) leaves an empty file until data arrives
EmptyFile == Junk

\* loadDownloadedFiles: {} without a ledger file, the parsed file otherwise;
\* the parse of a corrupt ledger throws
LedgerLoads(dir) ==
    getDownloadRecordPath \in DOMAIN dir => Parses(dir[getDownloadRecordPath])
\* (variant: every pass starts from an empty ledger)
loadDownloadedFiles_fresh(dir) == <<>>
loadDownloadedFiles(dir) ==
    IF getDownloadRecordPath \in DOMAIN dir
    THEN JSONparse(dir[getDownloadRecordPath])
    ELSE <<>>

\* saveDownloadedFiles
\* (variant: the ledger is never written)
saveDownloadedFiles_never(dir, downloaded) == dir
saveDownloadedFiles(dir, downloaded) ==
    Put(dir, getDownloadRecordPath, JSONstringify(downloaded))

\* the loop's test  if (!downloaded[file.id])
\* (variant: a changed modification time also asks for a download)
NeedsDownload_byTime(downloaded, file) ==
    \/ file.id \notin DOMAIN downloaded
    \/ downloaded[file.id].driveModifiedTime # file.modifiedTime
NeedsDownload(downloaded, file) == file.id \notin DOMAIN downloaded

\* drive.files.list: the PDF and JSON entries of the folder, as a list
Listable(entries) == {e \in entries : e.mimeType \in {PDF_MIME, JSON_MIME}}
\* the request names no order: the entries can come back in any order
Listings(entries) ==
    {l \in [1..Cardinality(entries) -> entries] :
        \A i, j \in DOMAIN l : i # j => l[i] # l[j]}

SyncPass(id, pc, files, idx, loaded, downloaded, newFilesCount, attempts) ==
    [id |-> id, pc |-> pc, files |-> files, idx |-> idx, loaded |-> loaded,
     downloaded |-> downloaded, newFilesCount |-> newFilesCount,
     attempts |-> attempts, succeeded |-> <<>>]

SyncEvent(p, step, fileId, ok) ==
    [op |-> "sync", id |-> p.id, step |-> step, fileId |-> fileId, ok |-> ok,
     files |-> p.files,
     loaded |-> p.loaded, downloaded |-> p.downloaded,
     newFilesCount |-> p.newFilesCount, attempts |-> p.attempts,
     succeeded |-> p.succeeded,
     ledgerBefore |-> IF getDownloadRecordPath \in DOMAIN dataDir
                      THEN dataDir[getDownloadRecordPath] ELSE Absent,
     ledgerAfter |-> IF getDownloadRecordPath \in DOMAIN dataDir'
                     THEN dataDir'[getDownloadRecordPath] ELSE Absent]

\* the pass starts: without a folder identifier it returns at once, else it
\* asks the remote folder for its listing
syncDriveFiles ==
    /\ syncCount' = syncCount + 1
    /\ IF ~DRIVE_FOLDER_ID
       THEN /\ UNCHANGED <<syncs, syncOverlap>>
            /\ last' = [op |-> "sync", id |-> syncCount + 1,
                        step |-> "no-folder"]
       ELSE LET p == SyncPass(syncCount + 1, "list", <<>>, 0, <<>>, <<>>, 0,
                              <<>>)
            IN  /\ syncs' = syncs \cup {p}
                /\ syncOverlap' = (syncOverlap \/ syncs # {})
                /\ last' = [op |-> "sync", id |-> p.id, step |-> "started"]
    /\ UNCHANGED <<env, processedFiles, dataDir, drive, nextDriveId, now,
                   tasks, nextId, urlCalls, outside, remoteOps, downloads,
                   hist>>

\* a call of syncDriveFiles by a caller that is not modelled further
\* (initializeDriveSync, the timer), MaxSyncs of them in a run
callSyncDriveFiles ==
    /\ syncCount < MaxSyncs
    /\ syncDriveFiles
    /\ UNCHANGED runVars

\* line 589: the ledger is saved when the pass downloaded something
\* (variant: the ledger is saved at the end of every pass)
ShouldSave_always(p) == TRUE
ShouldSave(p) == p.newFilesCount > 0

\* the for loop from position from on: it suspends at the next entry that
\* needs a download, where downloadFile has opened the destination for
\* writing, or runs to the end and saves the ledger when something was
\* downloaded; pending are the watcher events left by what was written before
SyncLoop(p0, p, dir, pending, from, step, fileId, ok) ==
    LET todo == {j \in from..Len(p.files) :
                    NeedsDownload(p.downloaded, p.files[j])}
    IN  IF todo # {}
        THEN LET j == CHOOSE x \in todo : \A y \in todo : x <= y
                 q == [p EXCEPT !.pc = "download", !.idx = j,
                                !.attempts = Append(@, p.files[j].id)]
             IN  /\ dataDir' = Put(dir, p.files[j].name, EmptyFile)
                 /\ watch' = Notify(pending, p.files[j].name)
                 /\ syncs' = (syncs \ {p0}) \cup {q}
                 /\ last' = SyncEvent(q, step, fileId, ok)
        ELSE /\ dataDir' = IF ShouldSave(p)
                           THEN saveDownloadedFiles(dir, p.downloaded)
                           ELSE dir
             /\ watch' = pending
             /\ syncs' = syncs \ {p0}
             /\ last' = SyncEvent(p, "finished", fileId, ok)

\* drive.files.list returns or throws
listReturns(p, ok) ==
    /\ p \in syncs /\ p.pc = "list"
    /\ \E files \in Listings(Listable(drive)) :
           IF ~ok \/ files = <<>> \/ ~LedgerLoads(dataDir)
           THEN /\ syncs' = syncs \ {p}
                /\ UNCHANGED <<dataDir, watch>>
                /\ last' = SyncEvent(p, IF ~ok THEN "list-error"
                                        ELSE IF files = <<>> THEN "empty"
                                        ELSE "ledger-error", "", ok)
           ELSE LET ledger == loadDownloadedFiles(dataDir)
                    q == [p EXCEPT !.files = files, !.loaded = ledger,
                                   !.downloaded = ledger]
                IN  SyncLoop(p, q, dataDir, watch, 1, "listed", "", TRUE)
    /\ UNCHANGED <<env, initVars, processedFiles, drive, nextDriveId, now, tasks,
                   nextId, urlCalls, outside, syncCount, remoteOps, downloads,
                   syncOverlap, hist>>

\* lines 583-587: the catch of a failed download logs it and the for loop
\* goes on with the entry after it, as after a successful download
\* (variant: a failed download ends the loop)
NextEntry_abort(p, ok) == IF ok THEN p.idx + 1 ELSE Len(p.files) + 1
NextEntry(p, ok) == p.idx + 1

\* downloadFile resolves or rejects; a download can only succeed for an
\* entry the remote folder still holds
downloadReturns(p, ok) ==
    /\ p \in syncs /\ p.pc = "download"
    /\ LET file == p.files[p.idx]
           remote == {e \in drive : e.id = file.id}
       IN  /\ ok => remote # {}
           /\ IF ok
              THEN LET e == CHOOSE x \in remote : TRUE
                       entry == [name |-> file.name,
                                 downloadedAt |-> toISOString([time |-> now]),
                                 driveModifiedTime |-> file.modifiedTime]
                       q == [p EXCEPT
                               !.downloaded = Put(@, file.id, entry),
                               !.newFilesCount = @ + 1,
                               !.succeeded = Append(@, file.id)]
                   IN  /\ downloads' = Put(downloads, file.id,
                              IF file.id \in DOMAIN downloads
                              THEN downloads[file.id] + 1 ELSE 1)
                       /\ SyncLoop(p, q, Put(dataDir, file.name, e.content),
                                   Notify(watch, file.name),
                                   NextEntry(p, TRUE), "downloaded", file.id,
                                   TRUE)
              ELSE /\ UNCHANGED downloads
                   /\ SyncLoop(p, p, dataDir, watch, NextEntry(p, FALSE),
                               "download-error", file.id, FALSE)
    /\ UNCHANGED <<env, initVars, processedFiles, drive, nextDriveId, now, tasks,
                   nextId, urlCalls, outside, syncCount, remoteOps,
                   syncOverlap, hist>>

\* somebody changes the remote folder: an entry is edited in place (its
\* identifier stays, its modification time moves on) or a new entry appears
remoteEdited(id) ==
    /\ remoteOps < MaxRemoteOps
    /\ \E e \in drive :
          /\ e.id = id
          /\ drive' = (drive \ {e}) \cup
                 {[e EXCEPT !.modifiedTime = @ + 1]}
    /\ remoteOps' = remoteOps + 1
    /\ last' = [op |-> "remote", step |-> "edited", fileId |-> id]
    /\ UNCHANGED <<env, runVars, processedFiles, dataDir, nextDriveId, now, tasks,
                   nextId, urlCalls, outside, syncs, syncCount, downloads,
                   syncOverlap, hist>>

remoteAdded(e) ==
    /\ remoteOps < MaxRemoteOps
    /\ \A x \in drive : x.id # e.id
    /\ drive' = drive \cup {e}
    /\ remoteOps' = remoteOps + 1
    /\ last' = [op |-> "remote", step |-> "added", fileId |-> e.id]
    /\ UNCHANGED <<env, runVars, processedFiles, dataDir, nextDriveId, now, tasks,
                   nextId, urlCalls, outside, syncs, syncCount, downloads,
                   syncOverlap, hist>>


(***************************************************************************)
(* Startup, initializeDriveSync, the middleware, the watcher and the timer *)
(***************************************************************************)
\* file.toLowerCase() on the letters that file names of the model contain
LowerChar(c) ==
    CASE c = "A" -> "a" [] c = "B" -> "b" [] c = "D" -> "d"
      [] c = "F" -> "f" [] c = "P" -> "p" [] OTHER -> c
RECURSIVE LowerFrom(_, _)
LowerFrom(str, i) ==
    IF i > Len(str) THEN ""
    ELSE LowerChar(SubSeq(str, i, i)) \o LowerFrom(str, i + 1)
toLowerCase(str) == LowerFrom(str, 1)

\* lines 384-388 and 403-408: the files of a directory listing that a scan
\* hands to processPDF
ScanMatches(dir) == {f \in DOMAIN dir : endsWith(toLowerCase(f), ".pdf")}

\* an execution of initializeDriveSync suspended at an await (pc "sync":
\* line 399, wait is the pass; pc "scan": line 406, wait is the processPDF
\* invocation, 0 when it returned without suspending, files are the entries
\* of the listing still to visit), started for request req (0: by the listen
\* callback) of the given route; pc "forEach" is the startup scan inside its
\* forEach
Execution(id, pc, wait, files, req, route) ==
    [id |-> id, pc |-> pc, wait |-> wait, files |-> files, req |-> req,
     route |-> route]

\* the awaited call of an execution has returned: its continuation is the
\* next thing the event loop runs
Due(i) ==
    \/ i.pc = "forEach"
    \/ i.pc = "sync" /\ \A p \in syncs : p.id # i.wait
    \/ i.pc = "scan" /\ \A t \in tasks : t.id # i.wait
AnyDue == \E i \in inits : Due(i)

\* who called initializeDriveSync: the listen callback (line 431), the
\* middleware for a request of a route (line 48; arg is what the request
\* carries: the file name, the url, the forceSync flag), or the debug
\* handler (line 108)
Route(name, arg) == [name |-> name, arg |-> arg]
Listen == Route("listen", "")
Results == Route("results", "")
ForcedDebug == Route("debug", "forceSync")
ForceSync == Route("forceSync", "")

\* line 47: the middleware runs initializeDriveSync first
\* (variant: the middleware never waits)
MustInitialize_never == FALSE
MustInitialize == ~driveSyncInitialized

\* a GET /api/results answered: res.json(Object.values(processedFiles))
GetEvent(req, map) ==
    [op |-> "get", id |-> req, status |-> 200,
     body |-> {map[k] : k \in DOMAIN map}]
\* lines 111-152: the answer of GET /api/debug
DebugEvent(req) ==
    [op |-> "debug", id |-> req, status |-> 200,
     filesInDataDir |-> DOMAIN dataDir,
     processedFileNames |-> DOMAIN processedFiles,
     driveSyncInitialized |-> driveSyncInitialized']

\* the handler of a route runs up to its first await or to its answer
\* (GET /api/debug with forceSync is in initializeDriveSync and InitEnds)
Handler(req, route) ==
    CASE route.name = "delete" ->
            \E e \in {"none", "pdf", "json"} : deleteHandler(route.arg, e)
      [] route.name = "process-url" -> processUrlHandler(route.arg)
      [] route.name = "save-to-drive" -> saveToDriveHandler(route.arg)
      [] OTHER ->
            /\ last' = IF route.name = "results"
                       THEN GetEvent(req, processedFiles)
                       ELSE DebugEvent(req)
            /\ UNCHANGED <<env, syncVars, processedFiles, dataDir, drive,
                           nextDriveId, now, tasks, nextId, urlCalls,
                           outside, hist>>

\* what runs when initializeDriveSync returns to its caller: nothing after
\* the listen callback, the rest of the debug handler (lines 111-152), or
\* next() of the middleware (line 50), which runs the handler of the route
AfterInit(id, req, route, step) ==
    IF route.name \in {"listen", "forceSync"} \/ route = ForcedDebug
    THEN /\ last' = IF route = Listen
                    THEN [op |-> "init", id |-> id, step |-> step,
                          req |-> 0]
                    ELSE DebugEvent(req)
         /\ UNCHANGED <<env, syncVars, processedFiles, dataDir, drive,
                        nextDriveId, now, tasks, nextId, urlCalls, outside,
                        hist>>
    ELSE Handler(req, route)

\* lines 394-424, up to the first await or to the end: without a folder
\* identifier the flag is set at once and the caller goes on (the debug
\* handler with forceSync calls it a second time), else the initial sync is
\* started
initializeDriveSync(req, route) ==
    IF ~DRIVE_FOLDER_ID
    THEN /\ driveSyncInitialized' = TRUE
         /\ initCount' = initCount + (IF route = ForcedDebug THEN 2 ELSE 1)
         /\ AfterInit(initCount + 1, req, route, "skipped")
         /\ UNCHANGED <<inits, reqs>>
    ELSE /\ initCount' = initCount + 1
         /\ syncDriveFiles
         /\ inits' = inits \cup {Execution(initCount + 1, "sync",
                                           syncCount + 1, <<>>, req, route)}
         /\ reqs' = IF req = 0 THEN reqs ELSE reqs \cup {req}
         /\ UNCHANGED driveSyncInitialized

\* lines 427-433: the listen callback of local development
listenCallback ==
    /\ "listen" \in boot
    /\ boot' = boot \ {"listen"}
    /\ initializeDriveSync(0, Listen)
    /\ UNCHANGED <<production, timers, watch, reqCount, ticks, hung>>

\* the requests of a kind that a run takes: those waiting for the middleware
\* count
Waiting(names) == Cardinality({i \in inits : i.route.name \in names})
HandlerBudget(route) ==
    CASE route.name = "delete" -> outside + Waiting({"delete"}) < MaxOutside
      [] route.name \in {"process-url", "save-to-drive"} ->
            urlCalls + Waiting({"process-url", "save-to-drive"})
               < MaxUrlCalls
      [] OTHER -> TRUE

\* lines 44-51: a request goes through the middleware, which runs
\* initializeDriveSync first when the flag is not set, and then next(): the
\* handler of the route (that of GET /api/debug with forceSync starts with
\* initializeDriveSync, line 108)
request(route) ==
    /\ reqCount < MaxRequests
    /\ HandlerBudget(route)
    /\ reqCount' = reqCount + 1
    /\ IF MustInitialize
       THEN initializeDriveSync(reqCount + 1, route)
       ELSE IF route = ForcedDebug
       THEN initializeDriveSync(reqCount + 1, ForceSync)
       ELSE /\ UNCHANGED <<driveSyncInitialized, inits, reqs, initCount>>
            /\ Handler(reqCount + 1, route)
    /\ UNCHANGED <<production, timers, boot, watch, ticks, hung>>

\* lines 54-56: GET /api/results
getResults == request(Results)

\* lines 379-389: the callback of fs.readdir starts its forEach
readdirCallback ==
    /\ "readdir" \in boot
    /\ boot' = boot \ {"readdir"}
    /\ \E files \in Listings(ScanMatches(dataDir)) :
          inits' = inits \cup {Execution(0, "forEach", 0, files, 0, Listen)}
    /\ last' = [op |-> "scan", step |-> "readdir"]
    /\ UNCHANGED <<env, syncVars, production, driveSyncInitialized, timers,
                   reqs, watch, initCount, reqCount, ticks, hung,
                   processedFiles, dataDir, drive, nextDriveId, now, tasks,
                   nextId, urlCalls, outside, hist>>

\* lines 415-423: the end of initializeDriveSync with a folder identifier:
\* outside production an interval is set, the flag is set, and the caller
\* goes on (the debug handler with forceSync, let through by the middleware,
\* calls initializeDriveSync again)
InitEnds(i) ==
    /\ timers' = IF production THEN timers ELSE timers + 1
    /\ driveSyncInitialized' = TRUE
    /\ IF i.route = ForcedDebug
       THEN /\ initCount' = initCount + 1
            /\ syncDriveFiles
            /\ inits' = (inits \ {i})
                          \cup {Execution(initCount + 1, "sync",
                                          syncCount + 1, <<>>, i.req,
                                          ForceSync)}
            /\ UNCHANGED reqs
       ELSE /\ inits' = inits \ {i}
            /\ reqs' = reqs \ {i.req}
            /\ UNCHANGED initCount
            /\ AfterInit(i.id, i.req, i.route, "done")
    /\ UNCHANGED <<production, boot, watch, reqCount, ticks, hung>>

\* the continuation of a suspended execution: after the initial sync the
\* directory is listed (line 403); the loop of lines 404-408 (and the
\* forEach of lines 384-388) hands the next matching file to processPDF,
\* and initializeDriveSync waits for it; after the last file the execution
\* ends
resumes(i) ==
    /\ i \in inits /\ Due(i)
    /\ IF i.pc = "sync"
       THEN /\ \E files \in Listings(ScanMatches(dataDir)) :
                  inits' = (inits \ {i})
                             \cup {[i EXCEPT !.pc = "scan", !.wait = 0,
                                             !.files = files]}
            /\ last' = [op |-> "scan", step |-> "readdirSync"]
            /\ UNCHANGED <<env, syncVars, production, driveSyncInitialized,
                           timers, reqs, boot, watch, initCount, reqCount,
                           ticks, hung, processedFiles, dataDir, drive,
                           nextDriveId, now, tasks, nextId, urlCalls,
                           outside, hist>>
       ELSE IF i.files = <<>>
       THEN IF i.pc = "forEach"
            THEN /\ inits' = inits \ {i}
                 /\ last' = [op |-> "scan", step |-> "forEach-end"]
                 /\ UNCHANGED <<env, syncVars, production,
                                driveSyncInitialized, timers, reqs, boot,
                                watch, initCount, reqCount, ticks, hung,
                                processedFiles, dataDir, drive, nextDriveId,
                                now, tasks, nextId, urlCalls, outside, hist>>
            ELSE InitEnds(i)
       ELSE /\ processPDF(Head(i.files))
            /\ inits' = (inits \ {i})
                          \cup {[i EXCEPT
                                   !.files = Tail(i.files),
                                   !.wait = IF i.pc = "scan"
                                               /\ \E t \in tasks' :
                                                     t.id = nextId
                                            THEN nextId ELSE 0]}
            /\ UNCHANGED <<production, driveSyncInitialized, timers, reqs,
                           boot, watch, initCount, reqCount, ticks, hung>>

\* lines 361-374: the watcher reports a file added or changed; a path that
\* ends in '.pdf' is handed to processPDF
watcherEvent(file) ==
    /\ file \in watch
    /\ watch' = watch \ {file}
    /\ processPDF(file)
    /\ UNCHANGED initVars

\* lines 416-418: a tick of the interval starts a sync pass
timerTick ==
    /\ timers > 0
    /\ Cardinality(ticks) < MaxTicks
    /\ ticks' = ticks \cup {syncCount + 1}
    /\ syncDriveFiles
    /\ UNCHANGED <<production, driveSyncInitialized, timers, inits, reqs,
                   boot, watch, initCount, reqCount, hung>>

\* a call that never returns: model.generateContent of an invocation of
\* processPDF, or downloadFile of a sync pass
Hung(kind, id) == [kind |-> kind, id |-> id]
neverReturns(h) ==
    /\ Cardinality(hung) < MaxHangs
    /\ h \notin hung
    /\ \/ h.kind = "ai" /\ \E t \in tasks : t.id = h.id /\ t.pc = "ai"
       \/ h.kind = "download"
            /\ \E p \in syncs : p.id = h.id /\ p.pc = "download"
    /\ hung' = hung \cup {h}
    /\ last' = [op |-> "hang", kind |-> h.kind, id |-> h.id]
    /\ UNCHANGED <<env, syncVars, production, driveSyncInitialized, timers,
                   inits, reqs, boot, watch, initCount, reqCount, ticks,
                   processedFiles, dataDir, drive, nextDriveId, now, tasks,
                   nextId, urlCalls, outside, hist>>


(***************************************************************************)
(* Specifications                                                          *)
(***************************************************************************)
PdfSteps ==
    \/ \E n \in Docs : callProcessPDF(n)
    \/ \E t \in tasks : pdfReturns(t)
    \/ \E t \in tasks, ok \in BOOLEAN, a \in AIResponses \cup AIErrors :
          aiReturns(t, ok, a)
    \/ \E t \in tasks, ok \in BOOLEAN : uploadReturns(t, ok)

FsSteps ==
    \/ \E n \in Docs, c \in SourceContents : fileDropped(n, c)
    \/ \E n \in Docs : sidecarRemoved(n)
    \/ \E n \in Docs : sidecarCorrupted(n)

DeleteSteps(keys) ==
    \/ \E k \in keys, e \in {"none", "pdf", "json"} : deleteResults(k, e)
    \/ \E t \in tasks, ok \in BOOLEAN : deleteReturns(t, ok)

UrlSteps ==
    \/ \E u \in Urls \cup {""} : postProcessUrl(u)
    \/ \E t \in tasks, ok \in BOOLEAN, x \in Texts \cup {FetchError} :
          fetchReturns(t, ok, x)
    \/ \E t \in tasks, ok \in BOOLEAN, a \in AIResponses \cup AIErrors :
          urlAiReturns(t, ok, a)

\* the files of the data directory: the Orchestrator, the changes made to
\* the directory from outside and the DELETE handler
Next == PdfSteps \/ FsSteps \/ DeleteSteps(Docs)
Spec == Init /\ [][Next]_vars

\* the two paths of the Orchestrator, files and URLs, MaxInvocations
\* invocations of the two together, and the saving of summaries
OrchBudget == (nextId - 1) + urlCalls < MaxInvocations
NextOrch ==
    \/ \E n \in Docs : OrchBudget /\ callProcessPDF(n)
    \/ \E u \in Urls \cup {""} : OrchBudget /\ postProcessUrl(u)
    \/ \E t \in tasks : pdfReturns(t)
    \/ \E t \in tasks, ok \in BOOLEAN, a \in AIResponses \cup AIErrors :
          aiReturns(t, ok, a)
    \/ \E t \in tasks, ok \in BOOLEAN : uploadReturns(t, ok)
    \/ \E t \in tasks, ok \in BOOLEAN, x \in Texts \cup {FetchError} :
          fetchReturns(t, ok, x)
    \/ \E t \in tasks, ok \in BOOLEAN, a \in AIResponses \cup AIErrors :
          urlAiReturns(t, ok, a)
SpecOrch == Init /\ [][NextOrch]_vars

\* documents are processed and clients ask for summaries to be saved to the
\* remote folder
NextSave ==
    \/ \E n \in Docs : OrchBudget /\ callProcessPDF(n)
    \/ \E t \in tasks : pdfReturns(t)
    \/ \E t \in tasks, ok \in BOOLEAN, a \in AIResponses \cup AIErrors :
          aiReturns(t, ok, a)
    \/ \E t \in tasks, ok \in BOOLEAN : uploadReturns(t, ok)
    \/ \E f \in SaveNames : OrchBudget /\ postSaveToDrive(f)
    \/ \E t \in tasks, ok \in BOOLEAN : saveReturns(t, ok)
SpecSave == Init /\ [][NextSave]_vars

\* the remote folder and the ledger at the start of a run with remote sync:
\* a PDF and a sidecar file in the folder, or not (what is not there can
\* appear later); the ledger absent, corrupt or left by an earlier run that
\* downloaded the PDF.  The sync reads no AI key: one is configured.
RemotePdf == DriveEntry("idX", "a.pdf", PDF_MIME, PdfOf(ShortText))
RemoteSidecar ==
    DriveEntry("idY", Sidecar("a.pdf"), JSON_MIME,
               JSONstringify([name |-> "a.pdf",
                              timestamp |-> [time |-> 0],
                              textPreview |-> ShortText \o Ellipsis,
                              analysis |-> "summary"]))
EarlierLedger ==
    [i \in {RemotePdf.id} |->
        [name |-> RemotePdf.name, downloadedAt |-> toISOString([time |-> 0]),
         driveModifiedTime |-> RemotePdf.modifiedTime]]
StartSyncDirs ==
    { <<>>,
      [f \in {getDownloadRecordPath} |-> Junk],
      [f \in {getDownloadRecordPath, RemotePdf.name} |->
          IF f = getDownloadRecordPath THEN JSONstringify(EarlierLedger)
          ELSE RemotePdf.content] }

InitSync ==
    /\ GEMINI_API_KEY = TRUE
    /\ DRIVE_FOLDER_ID \in BOOLEAN
    /\ processedFiles = <<>>
    /\ dataDir \in StartSyncDirs
    /\ drive \in SUBSET {RemotePdf, RemoteSidecar}
    /\ nextDriveId = 1
    /\ now = 1
    /\ tasks = {}
    /\ nextId = 1
    /\ urlCalls = 0
    /\ outside = 0
    /\ syncs = {}
    /\ syncCount = 0
    /\ remoteOps = 0
    /\ downloads = <<>>
    /\ syncOverlap = FALSE
    /\ production = TRUE     \* the deployed configuration: no watcher
    /\ driveSyncInitialized = FALSE
    /\ timers = 0
    /\ inits = {}
    /\ reqs = {}
    /\ boot = {}
    /\ watch = {}
    /\ initCount = 0
    /\ reqCount = 0
    /\ ticks = {}
    /\ hung = {}
    /\ hist = [n \in Docs |-> "none"]
    /\ last = NoEvent

SyncSteps ==
    \/ callSyncDriveFiles
    \/ \E p \in syncs, ok \in BOOLEAN : listReturns(p, ok)
    \/ \E p \in syncs, ok \in BOOLEAN : downloadReturns(p, ok)

RemoteSteps ==
    \/ \E e \in drive : remoteEdited(e.id)
    \/ \E e \in {RemotePdf, RemoteSidecar} : remoteAdded(e)

\* remote sync: the passes of syncDriveFiles, whichever of initializeDriveSync
\* (startup, the first requests, the debug endpoint) or the timer starts them,
\* and the changes made to the remote folder from outside
NextSync == SyncSteps \/ RemoteSteps
SpecSync == InitSync /\ [][NextSync]_vars

\* a run of the server from its start: the data directory is empty and the
\* remote folder holds a document that an earlier run processed and
\* uploaded, source and sidecar (a restart on a fresh disk), or the data
\* directory holds the document and its sidecar (a restart on the same
\* disk); the in-memory map is empty.  Outside production the watcher
\* reports the files it finds and the two startup callbacks are pending.
RemoteUpper == DriveEntry("idZ", "B.PDF", PDF_MIME, PdfOf(ShortText))
RunDocs == Docs \cup {RemoteUpper.name}
KeptDir ==
    [f \in {RemotePdf.name, RemoteSidecar.name} |->
        IF f = RemotePdf.name THEN RemotePdf.content
        ELSE RemoteSidecar.content]
RunStarts ==
    { [dir |-> <<>>, drive |-> {RemotePdf, RemoteSidecar}],
      [dir |-> KeptDir, drive |-> {}] }

InitRun ==
    /\ GEMINI_API_KEY = TRUE
    /\ DRIVE_FOLDER_ID \in BOOLEAN
    /\ processedFiles = <<>>
    /\ \E s \in RunStarts : dataDir = s.dir /\ drive = s.drive
    /\ nextDriveId = 1
    /\ now = 1
    /\ tasks = {}
    /\ nextId = 1
    /\ urlCalls = 0
    /\ outside = 0
    /\ syncs = {}
    /\ syncCount = 0
    /\ remoteOps = 0
    /\ downloads = <<>>
    /\ syncOverlap = FALSE
    /\ driveSyncInitialized = FALSE
    /\ timers = 0
    /\ inits = {}
    /\ reqs = {}
    /\ boot = IF production THEN {} ELSE {"readdir", "listen"}
    /\ watch = IF production THEN {}
               ELSE {f \in DOMAIN dataDir : endsWith(f, ".pdf")}
    /\ initCount = 0
    /\ reqCount = 0
    /\ ticks = {}
    /\ hung = {}
    /\ hist = [n \in RunDocs |-> "none"]
    /\ last = NoEvent

\* the calls in flight return, as ok says, except those that never do
RunReturns(oks) ==
    \/ \E t \in tasks : pdfReturns(t)
    \/ \E t \in tasks, ok \in oks, a \in AIResponses \cup AIErrors :
          Hung("ai", t.id) \notin hung /\ aiReturns(t, ok, a)
    \/ \E t \in tasks, ok \in oks : uploadReturns(t, ok)
    \/ \E p \in syncs, ok \in oks : listReturns(p, ok)
    \/ \E p \in syncs, ok \in oks :
          Hung("download", p.id) \notin hung /\ downloadReturns(p, ok)
Resumes == \E i \in inits : resumes(i)
SomeHang ==
    \E h \in {Hung("ai", t.id) : t \in tasks}
               \cup {Hung("download", p.id) : p \in syncs} : neverReturns(h)

\* the production deployment: no watcher, no startup callbacks, no timer;
\* the first requests run initializeDriveSync; a call may never return
InitProd == production = TRUE /\ InitRun
NextProd ==
    \/ Resumes
    \/ ~AnyDue /\ getResults
    \/ ~AnyDue /\ RunReturns(BOOLEAN)
    \/ ~AnyDue /\ SomeHang
SpecProd == InitProd /\ [][NextProd]_vars
\* requests keep arriving, the event loop runs what is ready, and every
\* call returns unless it is one of those that never do
FairProd ==
    WF_vars(Resumes \/ (~AnyDue /\ (getResults \/ RunReturns(BOOLEAN))))
SpecProdFair == SpecProd /\ FairProd

\* local development with remote services that answer every call: the
\* listen callback runs initializeDriveSync, the startup scan and the
\* watcher hand files to processPDF, the timer ticks, and once the server is
\* up somebody adds a document to the remote folder
InitLocal == production = FALSE /\ InitRun
NextLocal ==
    \/ Resumes
    \/ ~AnyDue /\ listenCallback
    \/ ~AnyDue /\ readdirCallback
    \/ ~AnyDue /\ \E f \in watch : watcherEvent(f)
    \/ ~AnyDue /\ timerTick
    \/ ~AnyDue /\ RunReturns({TRUE})
    \/ ~AnyDue /\ driveSyncInitialized /\ remoteAdded(RemoteUpper)
SpecLocal == InitLocal /\ [][NextLocal]_vars
\* the event loop runs what is ready, the timer ticks and every call returns
FairLocal ==
    WF_vars(\/ Resumes
            \/ ~AnyDue /\ (\/ listenCallback
                            \/ readdirCallback
                            \/ \E f \in watch : watcherEvent(f)
                            \/ timerTick
                            \/ RunReturns({TRUE})))
SpecLocalFair == SpecLocal /\ FairLocal

\* the server behind its middleware, in both deployments: the listen
\* callback (local development) and the requests of the five API routes
\* arrive in any order, GET /api/debug with and without forceSync (a server
\* that listens takes requests once its listen callback has run); the
\* remote services answer every call.  The startup scan, the watcher and the
\* timer's ticks are in SpecLocal.
GateRoutes ==
    {Results, Route("debug", ""), ForcedDebug}
      \cup {Route("delete", n) : n \in Docs}
      \cup {Route("process-url", u) : u \in Urls \cup {""}}
      \cup {Route("save-to-drive", f) : f \in Docs \cup {""}}
HandlerReturns ==
    \/ \E t \in tasks : deleteReturns(t, TRUE)
    \/ \E t \in tasks, x \in Texts : fetchReturns(t, TRUE, x)
    \/ \E t \in tasks, a \in AIResponses : urlAiReturns(t, TRUE, a)
    \/ \E t \in tasks : saveReturns(t, TRUE)
\* the run takes MaxSyncs executions of initializeDriveSync: those a
\* request or the listen callback starts at once and the one a debug handler
\* with forceSync starts once the middleware lets it through
InitsOf(route) ==
    IF route = Listen THEN 1
    ELSE (IF MustInitialize THEN 1 ELSE 0)
           + (IF route = ForcedDebug THEN 1 ELSE 0)
GateBudget(route) ==
    initCount + Cardinality({i \in inits : i.route = ForcedDebug})
       + InitsOf(route) <= MaxSyncs
InitGate == production \in BOOLEAN /\ InitRun
NextGate ==
    \/ Resumes
    \/ ~AnyDue /\ GateBudget(Listen) /\ listenCallback
    \/ ~AnyDue /\ "listen" \notin boot
          /\ \E r \in GateRoutes : GateBudget(r) /\ request(r)
    \/ ~AnyDue /\ RunReturns({TRUE})
    \/ ~AnyDue /\ HandlerReturns
SpecGate == InitGate /\ [][NextGate]_vars


(***************************************************************************)
(* Properties                                                              *)
(***************************************************************************)
\* a processPDF invocation has just returned / just stored its record
PdfReturned == last.op = "processPDF" /\ last.returned
PdfStored == last.op = "processPDF" /\ last.outcome = "stored"
\* the sidecar of a document holds the serialized record of the map
SidecarHoldsRecord(key) ==
    /\ key \in DOMAIN processedFiles
    /\ Exists(Sidecar(key))
    /\ dataDir[Sidecar(key)] = JSONstringify(processedFiles[key])

\* C1 as stated: a processPDF invocation that starts after an earlier one
\* on the same file has returned, the file and its sidecar unchanged in
\* between, calls neither pdf() nor the AI, and the sidecar exists after it.
C1_AsStated ==
    (PdfReturned /\ last.prev \in {"failed", "hit", "ok"})
        => (last.pdfCalls = 0 /\ last.aiCalls = 0 /\ last.sidecarAfter)

\* C1 amended: the same, when the earlier invocation did not fail in
\* extraction (it loaded the cache or stored a record).
C1_Idempotent ==
    (PdfReturned /\ last.prev \in {"hit", "ok"})
        => (last.pdfCalls = 0 /\ last.aiCalls = 0 /\ last.sidecarAfter
            /\ last.outcome = "hit")
C1_Witness ==
    PdfReturned /\ last.prev = "ok" /\ last.pdfCalls = 0 /\ last.sidecarAfter

\* a sync pass is in its loop or has just finished it
SyncInLoop ==
    last.op = "sync" /\
    last.step \in {"listed", "downloaded", "download-error", "finished"}
SyncFinished == last.op = "sync" /\ last.step = "finished"
\* the identifiers the pass listed, the ones it listed and had not loaded from
\* the ledger, the ones it added to the ledger it loaded
Listed == {last.files[i].id : i \in 1..Len(last.files)}
ListedNew == Listed \ DOMAIN last.loaded
Added == DOMAIN last.downloaded \ DOMAIN last.loaded
Attempted == {last.attempts[i] : i \in 1..Len(last.attempts)}
\* the ledger a pass loaded holds an identifier that the pass listed with
\* another modification time than the ledger recorded
ListedModified ==
    \E i \in 1..Len(last.files) :
        /\ last.files[i].id \in DOMAIN last.loaded
        /\ last.loaded[last.files[i].id].driveModifiedTime
              # last.files[i].modifiedTime

\* C2 as stated: a pass never downloads an identifier of the ledger it loaded,
\* and a pass that lists one identifier Y absent from that ledger performs
\* one download and adds one ledger entry, for Y.
C2_AsStated ==
    /\ SyncInLoop => Attempted \cap DOMAIN last.loaded = {}
    /\ (SyncFinished /\ Cardinality(ListedNew) = 1) =>
          /\ Len(last.attempts) = 1
          /\ Added = ListedNew

\* C2 (amended): in a sync pass, an entry whose remote identifier is in the
\* ledger the pass loaded is never downloaded, whatever its remote
\* modification time; a pass that lists exactly one identifier Y absent from
\* the ledger it loaded attempts exactly one download, that of Y, and, when
\* that download succeeds, adds exactly one ledger entry, for Y, and saves
\* the ledger with it; when the download fails, it adds no entry and does
\* not write the ledger.
C2_DownloadDedup ==
    /\ SyncInLoop => Attempted \cap DOMAIN last.loaded = {}
    /\ (SyncFinished /\ Cardinality(ListedNew) = 1) =>
          /\ Len(last.attempts) = 1
          /\ Attempted = ListedNew
          /\ last.fileId \in ListedNew
          /\ IF last.ok
             THEN /\ Added = ListedNew
                  /\ last.ledgerAfter = JSONstringify(last.downloaded)
                  /\ \A i \in DOMAIN last.loaded :
                        last.downloaded[i] = last.loaded[i]
             ELSE /\ Added = {}
                  /\ last.downloaded = last.loaded
                  /\ last.ledgerBefore = last.ledgerAfter

\* a pass has listed an identifier of its ledger, modified remotely since, and
\* one new identifier, and has downloaded the new one only
C2_Witness ==
    /\ SyncFinished /\ last.ok
    /\ ListedModified
    /\ Cardinality(ListedNew) = 1
    /\ Added = ListedNew

\* C3 as stated: whatever the interleaving of the sync passes of a run, no
\* remote identifier is downloaded more than once.
C3_AsStated == \A i \in DOMAIN downloads : downloads[i] <= 1

\* C3 (amended): across the sync passes of one run, however they are
\* triggered, each remote identifier is downloaded at most once, provided no
\* two passes overlap.
C3_AtMostOnce == ~syncOverlap => \A i \in DOMAIN downloads : downloads[i] <= 1

\* a second pass, started after the first one ended, has listed an identifier
\* the first one downloaded and has finished without downloading it again
C3_Witness ==
    /\ ~syncOverlap /\ syncCount = 2 /\ syncs = {}
    /\ SyncFinished /\ last.id = 2
    /\ \E i \in Listed : i \in DOMAIN downloads /\ downloads[i] = 1
    /\ last.attempts = <<>>

\* C4 as stated: when DELETE /api/results/D has answered, the map has no
\* entry D, the source D and the sidecar D.json do not exist, and
\* deleteFileFromDrive has been called for D and for D.json.
DeleteAnswered == last.op = "delete" /\ last.status # 0
LocalGone == ~last.inMap /\ ~last.srcExists /\ ~last.sidecarExists
C5_CacheBypass ==
    /\ (PdfReturned /\ last.prev = "removed")
          => /\ last.pdfCalls = 1 /\ last.analyses = 1
             /\ last.outcome \in {"stored", "finished"}
             /\ GEMINI_API_KEY => last.aiCalls = 1
    /\ (PdfStored /\ last.prev = "removed") => SidecarHoldsRecord(last.key)
C5_Witness ==
    PdfStored /\ last.prev = "removed" /\ last.returned
        /\ SidecarHoldsRecord(last.key)

\* C6: every call of processURL calls axios.get once, also when the map
\* already holds a record for the URL, and no step of the URL path changes
\* a file of the data directory.
C6_UrlNeverCaches ==
    (last.op = "processURL" /\ last.status # 400)
        => /\ last.fetchCalls = 1
           /\ last.filesSame
           /\ last.step = "start" =>
                \E t \in tasks : t.id = last.id /\ t.pc = "fetch"
C6_Witness ==
    /\ last.op = "processURL" /\ last.step = "start" /\ last.known
    /\ last.fetchCalls = 1

\* C7: without an AI key, every record in the map and in a sidecar has the
\* missing-key placeholder as analysis, and no invocation has called or is
\* calling model.generateContent.
C7_MissingKey ==
    ~GEMINI_API_KEY =>
        /\ \A k \in DOMAIN processedFiles :
              processedFiles[k].analysis =
                 "API Key missing. Please add GEMINI_API_KEY to .env file."
        /\ \A f \in DOMAIN dataDir :
              Parses(dataDir[f]) =>
                 JSONparse(dataDir[f]).analysis =
                    "API Key missing. Please add GEMINI_API_KEY to .env file."
        /\ \A t \in tasks : t.aiCalls = 0 /\ t.pc # "ai"
        /\ last.op \in {"processPDF", "processURL"} => last.aiCalls = 0
C7_Witness ==
    /\ ~GEMINI_API_KEY
    /\ "a.pdf" \in DOMAIN processedFiles
    /\ "http://u" \in DOMAIN processedFiles

\* C8: when the AI call throws, the invocation goes on: in that same step
\* a record is stored in the map whose analysis is the error placeholder
\* with the error message; for a file the sidecar holds that record, and a
\* URL request is answered 200.
C8_AIFailure ==
    (last.op \in {"processPDF", "processURL"} /\ last.step = "ai-error")
        => /\ last.key \in DOMAIN processedFiles
           /\ processedFiles[last.key].analysis =
                 "Error generating AI analysis: " \o last.answer
           /\ last.op = "processPDF" => SidecarHoldsRecord(last.key)
           /\ last.op = "processURL" => last.status = 200
C8_Witness ==
    /\ last.op = "processPDF" /\ last.step = "ai-error"
    /\ processedFiles[last.key].analysis =
          "Error generating AI analysis: quota exceeded"

\* C9: when a processPDF invocation stores its record after the AI has
\* answered, the record's name is the file's base name, its textPreview is
\* the first 200 characters of the extracted text followed by "...", its
\* analysis is the AI's answer, and the sidecar holds that record
\* serialized.
First200(text) == IF Len(text) <= 200 THEN text ELSE SubSeq(text, 1, 200)
C9_EndToEnd ==
    (PdfStored /\ last.step = "ai-ok")
        => /\ last.key \in DOMAIN processedFiles
           /\ processedFiles[last.key].name = last.key
           /\ processedFiles[last.key].textPreview = First200(last.text) \o "..."
           /\ processedFiles[last.key].analysis = last.answer
           /\ SidecarHoldsRecord(last.key)
C9_Witness ==
    /\ PdfStored /\ last.step = "ai-ok" /\ Len(last.text) > 200
    /\ Len(processedFiles[last.key].textPreview) = 203

\* C10 as stated: an invocation that finds a sidecar that does not parse
\* calls pdf(), runs the analysis stage and stores a record.
C10_AsStated ==
    (PdfReturned /\ last.cache = "corrupt")
        => /\ last.pdfCalls = 1 /\ last.analyses = 1
           /\ last.outcome \in {"stored", "finished"}

\* C10 amended: an invocation that finds a sidecar that does not parse does
\* not load it and calls pdf(); when the source is a PDF (extraction
\* succeeds) it runs the analysis stage and stores a record, and the
\* sidecar then holds the new record.
C10_CorruptCache ==
    /\ (PdfReturned /\ last.cache = "corrupt")
          => /\ last.pdfCalls = 1 /\ last.outcome # "hit"
             /\ last.srcIsPdf =>
                   (last.analyses = 1 /\ last.outcome \in {"stored", "finished"})
    /\ (PdfStored /\ last.cache = "corrupt") => SidecarHoldsRecord(last.key)
C10_Witness ==
    PdfStored /\ last.cache = "corrupt" /\ SidecarHoldsRecord(last.key)

\* C11 as stated: a pass that gets a listing while the ledger file exists and
\* does not parse goes on as with an empty ledger: it starts downloading what
\* is listed (and so rewrites the ledger at its end).
LedgerCorruptAtList ==
    /\ last.op = "sync" /\ last.step \in {"listed", "ledger-error"}
    /\ last.ledgerBefore # Absent /\ ~Parses(last.ledgerBefore)
C11_AsStated ==
    LedgerCorruptAtList =>
        /\ last.step = "listed"
        /\ last.loaded = <<>>
        /\ last.attempts # <<>>

\* C12: when the upload of the sidecar fails at the end of processPDF, that
\* step changes neither the in-memory map nor the data directory, and unless
\* another operation changed the document in the meantime the record and the
\* sidecar the invocation wrote are still in place, the one holding the
\* other.
UploadFailed == last.op = "processPDF" /\ last.step = "upload-error"
UploadFailedStep == last'.op = "processPDF" /\ last'.step = "upload-error"
C12_UploadFailure ==
    [][UploadFailedStep =>
          /\ processedFiles' = processedFiles
          /\ dataDir' = dataDir
          /\ (\A t \in tasks :
                (t.op = "processPDF" /\ t.pc = "upload" /\ t \notin tasks'
                   /\ SidecarHoldsRecord(t.key))
                => (SidecarHoldsRecord(t.key))')]_vars
C12_Witness == UploadFailed /\ SidecarHoldsRecord(last.key)

\* C15 as stated: POST /api/save-to-drive answers 400 when filename is missing,
\* otherwise 404 when filename is not a key of the in-memory map, otherwise
\* 500 when the remote folder is not configured or the upload throws, and
\* 200 with the created remote entry only when the upload succeeded; no step
\* of the handler changes the in-memory map.
SaveStep == last.op = "save"
C15_AsStated ==
    SaveStep =>
        /\ last.mapSame
        /\ last.status \in {0, 200, 400, 404, 500}
        /\ (last.status = 400) <=> (last.key = "")
        /\ (last.status = 404) <=> (last.key # "" /\ ~last.known)
        /\ (last.status = 500) <=>
              \/ last.step = "start" /\ last.key # "" /\ last.known
                   /\ ~last.folder
              \/ last.step = "create-error"
        /\ (last.status = 200) <=> (last.step = "created")
        /\ last.status = 200 =>
              /\ last.answer.success
              /\ \E e \in last.created :
                    /\ last.created = {e}
                    /\ e.name = summaryFileName(last.key)
                    /\ last.answer.driveFile = [id |-> e.id, name |-> e.name]
        /\ last.status # 200 =>
              /\ last.created = {}
              /\ last.status # 0 => ~last.answer.success
        /\ last.status = 0 =>
              \E t \in tasks : t.op = "save" /\ t.id = last.id

\* C16: POST /api/process-url answers 400, without fetching or storing
\* anything, when url is missing; it answers 200 exactly in the step in which
\* processURL stores the record of the URL; and when fetching or extraction
\* fails it answers 500 with success false and a message that carries the
\* error's message, and stores nothing.
UrlStep == last.op = "processURL"
C16_ProcessUrlStatus ==
    UrlStep =>
        /\ (last.key = "") <=> (last.status = 400)
        /\ last.status = 400 =>
              /\ last.fetchCalls = 0 /\ last.mapSame
              /\ \A t \in tasks : t.id # last.id
              /\ ~last.response.success
        /\ (last.status = 200) <=> ~last.mapSame
        /\ last.status = 200 =>
              /\ last.key \in DOMAIN processedFiles
              /\ processedFiles[last.key].name = last.key
              /\ processedFiles[last.key].type = "url"
              /\ last.response.success
        /\ (last.status = 500) <=> (last.step = "fetch-error")
        /\ last.status = 500 =>
              /\ last.mapSame
              /\ ~last.response.success
              /\ last.response.message = "Error processing URL: " \o FetchError
        /\ last.status \in {0, 200, 400, 500}
C16_Witness ==
    /\ UrlStep /\ last.status = 500
    /\ last.response.message = "Error processing URL: " \o FetchError
    /\ Urls \cap DOMAIN processedFiles # {}

\* C17: DELETE /api/results/:filename answers 200 with success true when no
\* step throws, and 500 with success false and a message carrying the
\* error's message when a local unlink or a remote delete throws.
DeleteThrew == last.step \in {"unlink-error", "drive-error"}
C17_DeleteStatus ==
    last.op = "delete" =>
        /\ DeleteThrew =>
              /\ last.status = 500
              /\ ~last.response.success
              /\ last.response.message \in
                    {"Error deleting file: " \o UnlinkError,
                     "Error deleting file: " \o DriveError}
        /\ (DeleteAnswered /\ ~DeleteThrew) =>
              /\ last.status = 200
              /\ last.response.success
        /\ ~DeleteAnswered =>
              \E t \in tasks : t.op = "delete" /\ t.key = last.key
C17_Witness ==
    /\ last.op = "delete" /\ last.step = "drive-error" /\ last.status = 500
    /\ ~last.response.success

\* C20: in a sync pass, when the download of a listed entry fails, the pass
\* goes on to the next listed entry that is not in the ledger, so that at its
\* end it has attempted every listed entry that was not in the ledger; no
\* entry is attempted twice within the pass, and the failed entry is not put
\* into the ledger, neither the pass's own nor the file it writes.
DownloadFailed ==
    /\ last.op = "sync" /\ last.step \in {"download-error", "finished"}
    /\ last.fileId # "" /\ ~last.ok
NoRetry ==
    \A i, j \in 1..Len(last.attempts) :
        last.attempts[i] = last.attempts[j] => i = j
C20_ContinueAfterFailure ==
    /\ SyncInLoop => NoRetry
    /\ SyncFinished => Attempted = ListedNew
    /\ DownloadFailed =>
          /\ last.fileId \notin DOMAIN last.downloaded
          /\ last.ledgerAfter \in
                {last.ledgerBefore, JSONstringify(last.downloaded)}
          /\ last.step = "download-error" =>
                \E p \in syncs :
                    /\ p.id = last.id /\ p.pc = "download"
                    /\ p.files[p.idx].id = last.attempts[Len(last.attempts)]
                    /\ p.files[p.idx].id # last.fileId
                    /\ \A j \in 1..(p.idx - 1) :
                          p.files[j].id \in Attempted \cup DOMAIN last.loaded
\* the first of two downloads of a pass failed, the second succeeded and the
\* ledger was written with the second only
C20_Witness ==
    /\ SyncFinished /\ Len(last.attempts) = 2
    /\ last.attempts[1] \notin DOMAIN last.downloaded
    /\ last.attempts[2] \in DOMAIN last.downloaded
    /\ last.ledgerAfter = JSONstringify(last.downloaded)

\* C13 as stated: after a restart that kept the files on disk, every source
\* file in the data directory whose sidecar exists and parses is eventually
\* in the in-memory map with the record its sidecar holds, and no invocation
\* of processPDF for it calls pdf() or the AI endpoint.
HasValidSidecar(n) ==
    Exists(n) /\ Exists(Sidecar(n)) /\ Parses(dataDir[Sidecar(n)])
LoadedFromSidecar(n) ==
    /\ n \in DOMAIN processedFiles
    /\ HasValidSidecar(n)
    /\ processedFiles[n] = JSONparse(dataDir[Sidecar(n)])
NoCallsFor(n) ==
    (last.op = "processPDF" /\ last.key = n)
        => (last.pdfCalls = 0 /\ last.aiCalls = 0)
C13_AsStated ==
    \A n \in Docs :
        (processedFiles = <<>> /\ HasValidSidecar(n))
            ~> (LoadedFromSidecar(n) /\ NoCallsFor(n))

\* C19 as stated: also in a run where a call of the AI endpoint or a
\* download never returns, every HTTP request is eventually answered.
C19_AsStated == \A r \in 1..MaxRequests : (r \in reqs) ~> (r \notin reqs)

\* C14 as stated: when the remote folder holds a document's source and its
\* sidecar and the process starts with an empty data directory and no
\* ledger, no invocation of processPDF for the document calls pdf() or the
\* AI endpoint, and when initializeDriveSync ends the document is in the
\* in-memory map with the record of the remote sidecar.
Restoring == DRIVE_FOLDER_ID /\ {RemotePdf, RemoteSidecar} \subseteq drive
InitDone == last.op = "init" /\ last.step = "done"
C14_AsStated ==
    Restoring =>
        /\ NoCallsFor(RemotePdf.name)
        /\ InitDone =>
              /\ RemotePdf.name \in DOMAIN processedFiles
              /\ processedFiles[RemotePdf.name]
                    = JSONparse(RemoteSidecar.content)

\* C18 as stated: every source file that a sync pass started by a timer tick
\* has downloaded eventually has a record in the in-memory map.
TickDownloaded(e) ==
    /\ last.op = "sync"
    /\ last.step \in {"downloaded", "finished"}
    /\ last.id \in ticks
    /\ last.fileId = e.id
    /\ last.ok
C18_AsStated ==
    \A e \in {RemotePdf, RemoteUpper} :
        TickDownloaded(e) ~> (e.name \in DOMAIN processedFiles)

\* C21: when a sync pass ends its loop, the ledger it holds is the ledger it
\* loaded plus one entry for each identifier whose download succeeded in the
\* pass (each downloaded once); the ledger file is written at that moment,
\* with the ledger the pass holds, when at least one download succeeded, and
\* no step of a pass writes the ledger file otherwise.
Succeeded == {last.succeeded[i] : i \in 1..Len(last.succeeded)}
C21_LedgerAtEnd ==
    /\ SyncFinished =>
          /\ DOMAIN last.downloaded = DOMAIN last.loaded \cup Succeeded
          /\ Succeeded \cap DOMAIN last.loaded = {}
          /\ \A id \in DOMAIN last.loaded :
                last.downloaded[id] = last.loaded[id]
          /\ Cardinality(Succeeded) = Len(last.succeeded)
          /\ last.newFilesCount = Len(last.succeeded)
          /\ IF Succeeded # {}
             THEN last.ledgerAfter = JSONstringify(last.downloaded)
             ELSE last.ledgerAfter = last.ledgerBefore
    /\ (last.op = "sync" /\ last.step \notin {"finished", "no-folder", "started"})
          => last.ledgerAfter = last.ledgerBefore
\* a pass that loaded a ledger with an entry has ended after a successful
\* download and has written the ledger file
C21_Witness ==
    /\ SyncFinished /\ last.loaded # <<>> /\ Succeeded # {}
    /\ last.ledgerAfter # last.ledgerBefore

\* a document is Cached: its record is in memory and its sidecar exists; it
\* is Processing: a processPDF invocation for it is suspended at an await
Cached(n) == n \in DOMAIN processedFiles /\ Exists(Sidecar(n))
Processing(ts, n) == {t.id : t \in {x \in ts : x.op = "processPDF" /\ x.key = n}}

\* C22 as stated: once a document is Cached, no step of the program (a step
\* that is not a change made to the data directory from outside) ends with
\* the document not Cached or with a new processPDF invocation in flight
\* for it.
C22_AsStated ==
    [][last'.op # "fs" =>
          \A n \in Docs :
             Cached(n) => /\ Cached(n)'
                          /\ Processing(tasks', n) \subseteq Processing(tasks, n)
      ]_vars

\* C22 (amended): Cached is terminal for the Orchestrator only.  A document
\* that is Cached stops being Cached only by a DELETE of that document or by
\* a change made to its files from outside the program, never by a
\* processPDF step; and a processPDF invocation that starts for a Cached
\* document whose sidecar parses returns at once, without suspending: the
\* document stays Cached and no invocation for it is added to those in
\* flight.
C22_CachedStable ==
    [][\A n \in Docs :
          /\ (Cached(n) /\ ~Cached(n)')
                => (last'.op \in {"delete", "fs"} /\ last'.key = n)
          /\ (/\ Cached(n) /\ Parses(dataDir[Sidecar(n)])
              /\ last'.op = "processPDF" /\ last'.key = n
              /\ last'.step = "start")
                => /\ last'.returned
                   /\ Cached(n)'
                   /\ Processing(tasks', n) = Processing(tasks, n)
      ]_vars
\* a processPDF invocation for a Cached document has just returned from its
\* cache check, after an earlier invocation stored the document
C22_Witness ==
    /\ last.op = "processPDF" /\ last.step = "start" /\ last.returned
    /\ last.prev = "ok"
    /\ Cached(last.key)

\* C23 as stated: the watcher hands to processPDF only files with the source
\* extension, never a sidecar, and the watcher and the startup scan recognize
\* the same files of the data directory.
C23_AsStated ==
    /\ \A f \in watch : endsWith(f, ".pdf") /\ ~endsWith(f, ".json")
    /\ \A f \in DOMAIN dataDir :
          f \in ScanMatches(dataDir) <=> Notify({}, f) = {f}

\* a processPDF invocation has just returned from the upload it awaited, the
\* document untouched by DELETE and from outside since it started
UploadReturned ==
    /\ PdfReturned /\ last.step \in {"upload-ok", "upload-error"}
    /\ ~last.dirty
\* no other processPDF invocation for the document is still in flight
LastToFinish == \A t \in tasks : ~(t.op = "processPDF" /\ t.key = last.key)
\* two records are the same up to the round trip through a sidecar (a later
\* invocation that loads the sidecar puts the parsed record into the map)
SameRecord(a, b) == JSONstringify(a) = JSONstringify(b)
\* the time a record was assembled at
TimeOf(r) ==
    IF "time" \in DOMAIN r.timestamp THEN r.timestamp.time
    ELSE r.timestamp.iso

HandlerStarted ==
    \/ last.op \in {"get", "debug"}
    \/ last.op = "delete" /\ last.step \in {"start", "unlink-error"}
    \/ last.op \in {"processURL", "save"} /\ last.step = "start"
    \/ \E i \in inits : i.route = ForceSync

\* C25: no handler of an API route (results, delete, debug, process-url,
\* save-to-drive) starts while driveSyncInitialized is false, so every
\* request that reaches a handler has seen initializeDriveSync run to its
\* end, and the flag never goes back from true to false.
C25_GatedHandlers ==
    /\ [](HandlerStarted => driveSyncInitialized /\ initCount > 0)
    /\ [][driveSyncInitialized => driveSyncInitialized']_vars
\* in production, with a remote folder, the only request so far is a DELETE:
\* it waited for the sync and the scan, and its handler has started
C25_Witness ==
    /\ production /\ DRIVE_FOLDER_ID /\ reqCount = 1
    /\ last.op = "delete" /\ last.step = "start"
    /\ driveSyncInitialized

\* the executions of initializeDriveSync inside the sync-then-scan body
\* (lines 399-408)
Initializing == {i \in inits : i.pc \in {"sync", "scan"}}

\* C26 as stated: at most one periodic sync timer is registered in a
\* process, and the sync-then-scan body of initializeDriveSync is never in
\* two overlapping executions, whatever the order in which the startup
\* initialisation, the first requests and the forced debug syncs arrive.
C26_AsStated == timers <= 1 /\ Cardinality(Initializing) <= 1

\* no DELETE of the document is waiting for the remote folder: every DELETE
\* that ran has answered
DeleteSettled(n) == \A t \in tasks : ~(t.op = "delete" /\ t.key = n)

\* C27 as stated: a processPDF invocation for D that is in flight, past the
\* sidecar check, when DELETE D runs does not re-create D after the delete
\* has answered: the in-memory entry D and the sidecar D.json stay absent.
C27_AsStated ==
    ~(/\ PdfStored /\ last.deleted
      /\ DeleteSettled(last.key)
      /\ last.key \in DOMAIN processedFiles
      /\ Exists(Sidecar(last.key)))

\* what a step does to the record and to the sidecar of a document
RecordChanges(n) ==
    \/ (n \in DOMAIN processedFiles) # (n \in DOMAIN processedFiles')
    \/ /\ n \in DOMAIN processedFiles /\ n \in DOMAIN processedFiles'
       /\ processedFiles[n] # processedFiles'[n]
SidecarChanges(n) ==
    \/ Exists(Sidecar(n)) # (Sidecar(n) \in DOMAIN dataDir')
    \/ /\ Exists(Sidecar(n)) /\ Sidecar(n) \in DOMAIN dataDir'
       /\ dataDir[Sidecar(n)] # dataDir'[Sidecar(n)]
\* the step is one of processPDF / of the DELETE handler for the document
ByProcessPDF(n) == last'.op = "processPDF" /\ last'.key = n
ByDelete(n) == last'.op = "delete" /\ last'.key = n
\* the document has a record and a sidecar, and they differ
RecordDiffers(n) ==
    /\ n \in DOMAIN processedFiles /\ Exists(Sidecar(n))
    /\ ~SidecarHoldsRecord(n)

\* C28: the record of a file-derived name and the sidecar the Orchestrator
\* wrote for it are equal in every state, because processPDF and DELETE
\* update the two within one uninterrupted step: every step of processPDF
\* that changes the record or the sidecar leaves the sidecar holding the
\* record (the record as JSON.stringify writes it); no other step writes the
\* record of a file-derived name, DELETE only removes it, together with the
\* sidecar unless an unlink throws; and a record and a sidecar that agree
\* come to differ only by a write to the sidecar that is not the
\* Orchestrator's (a download of the sync, a change made from outside).
C28_RecordIsSidecar ==
    [][\A n \in RunDocs :
         /\ (ByProcessPDF(n) /\ (RecordChanges(n) \/ SidecarChanges(n)))
               => SidecarHoldsRecord(n)'
         /\ RecordChanges(n) => (ByProcessPDF(n) \/ ByDelete(n))
         /\ (ByDelete(n) /\ last'.step = "start")
               => /\ n \notin DOMAIN processedFiles'
                  /\ Sidecar(n) \notin DOMAIN dataDir'
         /\ (ByDelete(n) /\ RecordChanges(n)) => n \notin DOMAIN processedFiles'
         /\ (~RecordDiffers(n) /\ RecordDiffers(n)')
               => (SidecarChanges(n) /\ ~RecordChanges(n)
                     /\ ~ByProcessPDF(n) /\ ~ByDelete(n))
    ]_vars
\* an invocation has stored a record over one that an earlier invocation
\* wrote, and the sidecar holds the new record
C28_Witness ==
    /\ PdfStored /\ last.prev = "removed" /\ SidecarHoldsRecord(last.key)
    /\ TimeOf(processedFiles[last.key]) > 1

\* the identifiers in the ledger file of a directory
LedgerIds(dir) ==
    IF getDownloadRecordPath \in DOMAIN dir
         /\ Parses(dir[getDownloadRecordPath])
    THEN DOMAIN JSONparse(dir[getDownloadRecordPath])
    ELSE {}

\* C29 as stated: the persisted download ledger only grows: an identifier
\* in the ledger file is still in it after every later sync pass, including
\* passes that overlap with the one that wrote it.
C29_AsStated == [][LedgerIds(dataDir) \subseteq LedgerIds(dataDir')]_vars

\* C29 (amended): as long as no two sync passes have overlapped, the
\* persisted download ledger only grows: every step leaves in the ledger
\* file the identifiers that were in it.
C29_GrowsWithoutOverlap ==
    [][~syncOverlap' => LedgerIds(dataDir) \subseteq LedgerIds(dataDir')]_vars
\* a pass that overlapped no other has added to a ledger that held
\* identifiers already
C29_Witness ==
    /\ ~syncOverlap /\ SyncFinished /\ last.loaded # <<>>
    /\ Succeeded # {}
    /\ DOMAIN last.loaded \subseteq LedgerIds(dataDir)
    /\ LedgerIds(dataDir) # DOMAIN last.loaded

\* a processURL call has just failed: axios.get or the extraction threw
UrlFailed == last.op = "processURL" /\ last.step = "fetch-error"

\* C30: a processURL call that fails in fetching or extraction leaves the
\* in-memory map unchanged, at its start and when it fails: a record stored
\* earlier for the same URL keeps its content and no key is added; the
\* request is answered 500.
C30_FailedUrlKeepsMap ==
    /\ UrlFailed => (last.mapSame /\ last.filesSame /\ last.status = 500)
    /\ (last.op = "processURL" /\ last.step = "start") => last.mapSame
\* the call that failed was for a URL whose record an earlier call stored
C30_Witness ==
    /\ UrlFailed /\ last.key \in DOMAIN processedFiles
    /\ processedFiles[last.key].type = "url"

====
